---- MODULE Spec2Model ----
(***************************************************************************)
(* Web Security Suite (browser add-on): the keyword classifier of the      *)
(* YouTube study mode, the reputation lookup of the background script and  *)
(* the shortener detection of the content script, modelled from            *)
(* content.js and background.js.                                           *)
(*                                                                         *)
(* Texts are TLA+ strings; TLC evaluates Len, SubSeq and \o on them, so a  *)
(* JavaScript string method is written out character by character.         *)
(***************************************************************************)
EXTENDS Integers, Sequences, FiniteSets, TLC

VARIABLES
  videoElement,   \* the element examined: [title, description] text contents
  result,         \* what the last classifier call returned
  score,          \* argument handed to getRiskLabel
  label,          \* what getRiskLabel returned for score
  requests,       \* checkReputation messages: id -> state of its handler
  fetches,        \* number of fetch calls issued to the threat API
  hostname,       \* window.location.hostname of the page
  links,          \* hrefs of the a[href] elements of the page, document order
  shortenerResult,\* what detectUrlShortener returned to init
  analyzeResponse,\* the response to the analyzeShortener message
  form,           \* the form examined: [action, inputs, readable]
  formResult,     \* what the last call of the form analyzer returned
  textValue,      \* a value of any type handed to a keyword test
  completion,     \* how the last call ended: returned or threw
  securityState,  \* the content script's toggles and its observer reference
  timers,         \* the timeouts the content script has pending
  dom,            \* what the content script has changed on the page
  page,           \* the page the content script runs in
  stored,         \* chrome.storage.sync, one entry per setting
  phase,          \* "loading" until the callback of init's storage read ran
  popup,          \* the reputation tab of the popup: panels and texts
  calls,          \* the reputation checks of the popup, by request
  seen,           \* the classifier calls made so far: input and result
  submitted,      \* the last submit event of the page's form and its end
  features,       \* the features tab of the popup: open, loading, toggles
  writes,         \* the chrome.storage.sync.set calls not yet completed
  saved           \* for each key, the value saveSetting of the popup stored last

vars ==
  <<videoElement, result, score, label, requests, fetches,
    hostname, links, shortenerResult, analyzeResponse, form, formResult,
    textValue, completion, securityState, timers, dom, page, stored, phase,
    popup, calls, seen, submitted, features, writes, saved>>

classifyVars ==
  <<videoElement, result>>

labelVars ==
  <<score, label>>

reputationVars ==
  <<requests, fetches>>

shortenerVars ==
  <<hostname, links, shortenerResult, analyzeResponse>>

formVars ==
  <<form, formResult>>

faultVars ==
  <<textValue, completion>>

contentVars ==
  <<securityState, timers, dom, page, stored, phase, submitted>>

settingsVars ==
  <<features, writes, saved>>

popupVars ==
  <<popup, calls>>

\* what the calls of one component leave alone
outsideClassify ==
  <<labelVars, reputationVars, shortenerVars, formVars, faultVars,
    contentVars, popupVars, seen, settingsVars>>

outsideLabel ==
  <<classifyVars, reputationVars, shortenerVars, formVars, faultVars,
    contentVars, popupVars, seen, settingsVars>>

outsideReputation ==
  <<classifyVars, labelVars, shortenerVars, formVars, faultVars,
    contentVars, popupVars, seen, settingsVars>>

outsideShortener ==
  <<classifyVars, labelVars, reputationVars, formVars, faultVars,
    contentVars, popupVars, seen, settingsVars>>

outsideForm ==
  <<classifyVars, labelVars, reputationVars,
    links, shortenerResult, analyzeResponse, faultVars, contentVars,
    popupVars, seen, settingsVars>>

None ==
  "none"

(***************************************************************************)
(* JavaScript string methods                                               *)
(***************************************************************************)
UpperChars ==
  "ABCDEFGHIJKLMNOPQRSTUVWXYZ"

LowerChars ==
  "abcdefghijklmnopqrstuvwxyz"

\* the lowercase letter of every capital letter
lowerCaseOf ==
  [c \in {SubSeq(UpperChars, i, i) : i \in 1..Len(UpperChars)} |->
     LET i == CHOOSE j \in 1..Len(UpperChars) : SubSeq(UpperChars, j, j) = c
     IN  SubSeq(LowerChars, i, i)]

\* one character of String.prototype.toLowerCase
toLowerCaseChar(c) ==
  IF c \in DOMAIN lowerCaseOf THEN lowerCaseOf[c] ELSE c

RECURSIVE toLowerCase(_)
toLowerCase(s) ==
  IF Len(s) = 0 THEN ""
  ELSE toLowerCaseChar(SubSeq(s, 1, 1)) \o toLowerCase(SubSeq(s, 2, Len(s)))

\* String.prototype.includes: k occurs in s as a contiguous run
includes(s, k) ==
  \E i \in 1..(Len(s) - Len(k) + 1) : SubSeq(s, i, i + Len(k) - 1) = k


\* String.prototype.startsWith
startsWith(s, k) ==
  Len(k) <= Len(s) /\ SubSeq(s, 1, Len(k)) = k

\* first index at which k occurs in s, 0 when it does not (indexOf + 1)
indexOf(s, k) ==
  IF includes(s, k)
  THEN CHOOSE i \in 1..(Len(s) - Len(k) + 1) :
         /\ SubSeq(s, i, i + Len(k) - 1) = k
         /\ \A j \in 1..(i - 1) : SubSeq(s, j, j + Len(k) - 1) # k
  ELSE 0

WhiteSpace ==
  {" ", "\t", "\n"}

RECURSIVE trimStart(_)
trimStart(s) ==
  IF Len(s) > 0 /\ SubSeq(s, 1, 1) \in WhiteSpace
  THEN trimStart(SubSeq(s, 2, Len(s)))
  ELSE s

RECURSIVE trimEnd(_)
trimEnd(s) ==
  IF Len(s) > 0 /\ SubSeq(s, Len(s), Len(s)) \in WhiteSpace
  THEN trimEnd(SubSeq(s, 1, Len(s) - 1))
  ELSE s

trim(s) ==
  trimEnd(trimStart(s))

(***************************************************************************)
(* OPTION 2: YouTube study mode, keyword lists.  The lists are those of    *)
(* content.js, entry for entry; the right single quotation mark (U+2019)   *)
(* of one BLOCK keyword is written "~", a character no other keyword and   *)
(* no text of the model contains.                                          *)
(***************************************************************************)
STUDY_KEYWORDS ==
  <<
  "lecture series", "class recording", "course material", "syllabus",
  "curriculum", "academic lecture", "concept explanation", "theory",
  "numericals", "problem solving", "worked examples", "solutions explained",
  "proof", "derivation", "formula", "equations", "lab experiment",
  "practical session", "simulation", "case study", "research methodology",
  "data interpretation", "statistical analysis", "regression",
  "classification", "probability", "bayes theorem", "linear algebra",
  "matrix", "vector", "calculus", "integration", "differentiation",
  "code walkthrough", "live coding", "debugging", "error fixing",
  "stack trace", "complexity analysis", "time complexity",
  "space complexity", "big o notation", "interview preparation",
  "university lecture", "college lecture", "nptel lecture", "iit lecture",
  "mit lecture", "stanford lecture", "harvard lecture", "semester exam",
  "internal assessment", "final exam review", "exam solutions",
  "exam discussion", "tutorial", "lecture", "course", "class", "learn",
  "education", "educational", "lesson", "training", "workshop", "seminar",
  "webinar", "guide", "instruction", "how to", "step by step",
  "beginners guide", "for beginners", "introduction to", "crash course",
  "full course", "complete course", "masterclass", "online course", "math",
  "mathematics", "algebra", "calculus", "geometry", "trigonometry",
  "statistics", "physics", "chemistry", "biology", "science", "geography",
  "history", "economics", "psychology", "sociology", "philosophy",
  "literature", "linguistics", "grammar", "vocabulary", "language learning",
  "foreign language", "programming", "coding", "software", "development",
  "computer science", "cs", "python", "java", "javascript", "typescript",
  "c++", "c#", "php", "ruby", "go", "rust", "html", "css", "react",
  "angular", "vue", "node.js", "express", "django", "flask", "database",
  "sql", "mongodb", "mysql", "postgresql", "algorithm", "data structure",
  "data structures", "oop", "object oriented", "machine learning", "ml",
  "artificial intelligence", "ai", "deep learning", "neural network",
  "data science", "data analysis", "big data", "analytics", "cybersecurity",
  "network security", "information security", "web development", "frontend",
  "backend", "full stack", "mobile development", "devops", "cloud", "aws",
  "azure", "google cloud", "docker", "kubernetes", "engineering",
  "mechanical", "civil", "electrical", "electronics", "robotics",
  "automation", "iot", "internet of things", "embedded", "arduino",
  "raspberry pi", "3d printing", "cad", "design", "architecture", "business",
  "management", "leadership", "marketing", "digital marketing", "seo",
  "finance", "accounting", "investment", "stock market", "trading",
  "cryptocurrency", "entrepreneurship", "startup", "project management",
  "agile", "scrum", "career", "job interview", "resume", "cv",
  "public speaking", "communication", "exam", "test", "quiz", "preparation",
  "competitive exam", "entrance exam", "certification", "certificate",
  "degree", "diploma", "mooc", "udemy", "coursera", "edx", "khan academy",
  "skillshare", "linkedin learning", "mit opencourseware", "stanford online",
  "harvard online", "nptel", "swayam", "school", "high school",
  "secondary school", "college", "university", "undergraduate", "graduate",
  "postgraduate", "phd", "research", "thesis", "dissertation", "paper",
  "publication", "journal", "quantum physics", "astronomy", "astrophysics",
  "cosmology", "genetics", "evolution", "microbiology", "organic chemistry",
  "inorganic chemistry", "physical chemistry", "thermodynamics",
  "electromagnetism", "optics", "programming interview", "coding interview",
  "leetcode", "hackerrank", "system design", "design pattern",
  "software architecture", "jee", "neet", "gate", "upsc", "ias", "ips",
  "cat", "mat", "xat", "cbse", "icse", "ncert", "board exam", "competitive",
  "iit jee", "medical entrance", "engineering entrance", "study with me",
  "pomodoro", "study technique", "study tips", "study method", "note taking",
  "mind mapping", "flashcards", "anki", "spaced repetition", "active recall",
  "feynman technique", "pomodoro technique", "english", "spanish", "french",
  "german", "chinese", "japanese", "korean", "hindi", "sanskrit", "tamil",
  "telugu", "malayalam", "kannada", "bengali", "marathi", "gujarati",
  "punjabi", "urdu"
  >>

BLOCK_KEYWORDS ==
  <<
  "song", "songs", "music", "Mix", "Shorts", "shorts", "musical",
  "entertainment", "movie", "film", "cinema", "game", "games", "gaming",
  "playthrough", "walkthrough", "gameplay", "vlog", "vlogging", "daily vlog",
  "lifestyle", "fashion", "beauty", "makeup", "comedy", "funny", "joke",
  "prank", "challenge", "memes", "meme", "celebrities", "celebrity",
  "gossip", "rumor", "scandal", "sports", "football", "soccer", "basketball",
  "cricket", "tennis", "golf", "cooking", "recipe", "food", "restaurant",
  "travel", "vacation", "holiday", "shopping", "haul", "unboxing", "review",
  "product review", "asmr", "satisfying", "relaxing", "meditation", "sleep",
  "anime", "manga", "cartoon", "animation", "netflix", "hbo", "disney",
  "party", "nightlife", "club", "dance", "dancing", "dating", "relationship",
  "love", "romance", "horror", "scary", "thriller", "action", "adventure",
  "trailer", "teaser", "preview", "podcast", "talk show", "interview",
  "short film", "documentary", "series", "fortnite", "minecraft", "roblox",
  "valorant", "cod", "call of duty", "stream", "livestream", "twitch",
  "tiktok", "reels", "shorts", "compilation", "highlights", "motivation",
  "inspirational", "self-help", "workout", "fitness", "gym", "exercise",
  "trending", "must watch", "you won~t believe", "shocking", "epic", "crazy",
  "insane", "watch till end", "emotional", "reaction video", "roasting",
  "exposed", "instagram", "snapchat", "whatsapp", "influencer", "creator",
  "yoga"
  >>

\* keyword.toLowerCase() of each list entry, as the loops compute it
studyKeywordLower ==
  [i \in 1..Len(STUDY_KEYWORDS) |-> toLowerCase(STUDY_KEYWORDS[i])]

blockKeywordLower ==
  [i \in 1..Len(BLOCK_KEYWORDS) |-> toLowerCase(BLOCK_KEYWORDS[i])]

\* hasStudyKeyword with the early return inverted
hasStudyKeyword_blankTrue(text) ==
  IF text = "" \/ trim(text) = ""
  THEN TRUE
  ELSE LET lowerText == toLowerCase(text)
       IN  \E i \in 1..Len(STUDY_KEYWORDS) :
             includes(lowerText, studyKeywordLower[i])

hasStudyKeyword(text) ==
  IF text = "" \/ trim(text) = ""
  THEN FALSE
  ELSE LET lowerText == toLowerCase(text)
       IN  \E i \in 1..Len(STUDY_KEYWORDS) :
             includes(lowerText, studyKeywordLower[i])

\* hasBlockKeyword comparing against the keyword as stored
hasBlockKeyword_rawKeyword(text) ==
  IF text = "" \/ trim(text) = ""
  THEN FALSE
  ELSE LET lowerText == toLowerCase(text)
       IN  \E i \in 1..Len(BLOCK_KEYWORDS) :
             includes(lowerText, BLOCK_KEYWORDS[i])

hasBlockKeyword(text) ==
  IF text = "" \/ trim(text) = ""
  THEN FALSE
  ELSE LET lowerText == toLowerCase(text)
       IN  \E i \in 1..Len(BLOCK_KEYWORDS) :
             includes(lowerText, blockKeywordLower[i])

\* text of the element's title node, trimmed; '' when it has none, and ''
\* from the catch block when the element cannot be queried
getVideoTitle(element) ==
  IF element.readable THEN trim(element.title) ELSE ""

getVideoDescription(element) ==
  IF element.readable THEN trim(element.description) ELSE ""

\* shouldPlayVideo testing the study keywords before the block keywords
shouldPlayVideo_studyFirst(element) ==
  LET title == getVideoTitle(element)
      description == getVideoDescription(element)
  IN  IF hasStudyKeyword(title) \/ hasStudyKeyword(description)
      THEN TRUE
      ELSE FALSE

\* shouldPlayVideo playing whatever carries no block keyword
shouldPlayVideo_defaultPlay(element) ==
  LET title == getVideoTitle(element)
      description == getVideoDescription(element)
  IN  ~(hasBlockKeyword(title) \/ hasBlockKeyword(description))

\* shouldPlayVideo asking for a study keyword in title and description
shouldPlayVideo_bothFields(element) ==
  LET title == getVideoTitle(element)
      description == getVideoDescription(element)
  IN  IF hasBlockKeyword(title) \/ hasBlockKeyword(description)
      THEN FALSE
      ELSE hasStudyKeyword(title) /\ hasStudyKeyword(description)

\* shouldPlayVideo letting every video play while study mode is off
shouldPlayVideo_offPlaysAll(element) ==
  LET title == getVideoTitle(element)
      description == getVideoDescription(element)
  IN  IF ~securityState.youtubeStudyMode
      THEN TRUE
      ELSE IF hasBlockKeyword(title) \/ hasBlockKeyword(description)
      THEN FALSE
      ELSE hasStudyKeyword(title) \/ hasStudyKeyword(description)

\* TRUE = play (Allow), FALSE = block
shouldPlayVideo(element) ==
  LET title == getVideoTitle(element)
      description == getVideoDescription(element)
  IN  IF hasBlockKeyword(title) \/ hasBlockKeyword(description)
      THEN FALSE
      ELSE LET hasTitleKeyword == hasStudyKeyword(title)
               hasDescriptionKeyword == hasStudyKeyword(description)
           IN  hasTitleKeyword \/ hasDescriptionKeyword

\* the decision of the watch-page timer of blockNonStudyVideos
shouldPlayWatchPage(element) ==
  LET title == trim(element.title)
      description == trim(element.description)
      hasBlock == hasBlockKeyword(title) \/ hasBlockKeyword(description)
      hasStudy == hasStudyKeyword(title) \/ hasStudyKeyword(description)
  IN  ~hasBlock /\ hasStudy

(***************************************************************************)
(* Inputs of the classifier: texts put together from a few fragments       *)
(***************************************************************************)
MaxTitleFrags ==
  2

MaxDescFrags ==
  1

Fragments ==
  {" ", "Mix", "CLASS", "ic", "Coding"}

RECURSIVE Texts(_)
Texts(n) ==
  IF n = 0 THEN {""}
  ELSE LET shorter == Texts(n - 1)
       IN  shorter \cup {t \o f : t \in shorter, f \in Fragments}

\* the keywords the README lists as educational
DocumentedKeywords ==
  {"tutorial", "lecture", "course", "class", "learn", "programming",
   "python", "java", "coding", "math", "physics", "chemistry", "biology",
   "engineering", "data science", "AI", "exam prep", "college",
   "university"}

Titles ==
  Texts(MaxTitleFrags) \cup DocumentedKeywords

Descriptions ==
  Texts(MaxDescFrags)

(***************************************************************************)
(* Classifier calls                                                        *)
(***************************************************************************)
CallHasStudyKeyword ==
  /\ \E text \in {videoElement.title, videoElement.description} :
       result' = [op |-> "hasStudyKeyword", text |-> text,
                  value |-> hasStudyKeyword(text)]
  /\ UNCHANGED <<videoElement, outsideClassify>>

CallHasBlockKeyword ==
  /\ \E text \in {videoElement.title, videoElement.description} :
       result' = [op |-> "hasBlockKeyword", text |-> text,
                  value |-> hasBlockKeyword(text)]
  /\ UNCHANGED <<videoElement, outsideClassify>>

CallShouldPlayVideo ==
  /\ result' = [op |-> "shouldPlayVideo",
                value |-> shouldPlayVideo(videoElement)]
  /\ UNCHANGED <<videoElement, outsideClassify>>

WatchPageCheck ==
  /\ result' = [op |-> "watchPage",
                value |-> shouldPlayWatchPage(videoElement)]
  /\ UNCHANGED <<videoElement, outsideClassify>>

(***************************************************************************)
(* OPTION 1: URL reputation check (background.js)                          *)
(***************************************************************************)
\* getRiskLabel with the upper end of the Suspicious range left out
getRiskLabel_gapAt60(riskScore) ==
  IF riskScore >= 0 /\ riskScore <= 30 THEN "Safe"
  ELSE IF riskScore >= 31 /\ riskScore < 60 THEN "Suspicious"
  ELSE IF riskScore >= 61 /\ riskScore <= 100 THEN "High Risk"
  ELSE "Unknown"

getRiskLabel(riskScore) ==
  IF riskScore >= 0 /\ riskScore <= 30 THEN "Safe"
  ELSE IF riskScore >= 31 /\ riskScore <= 60 THEN "Suspicious"
  ELSE IF riskScore >= 61 /\ riskScore <= 100 THEN "High Risk"
  ELSE "Unknown"

\* scores tried run from -ScoreMargin to 100 + ScoreMargin
ScoreMargin ==
  5

Scores ==
  (0 - ScoreMargin)..(100 + ScoreMargin)

CallGetRiskLabel ==
  /\ label' = getRiskLabel(score)
  /\ UNCHANGED <<score, outsideLabel>>

\* threatTypes of the request body
ThreatTypes ==
  {"MALWARE", "SOCIAL_ENGINEERING", "UNWANTED_SOFTWARE",
   "POTENTIALLY_HARMFUL_APPLICATION"}

MaxRequests ==
  2

MaxMatches ==
  1

RequestIds ==
  1..MaxRequests

Urls ==
  {"https://example.com/", "https://bit.ly/a"}

RECURSIVE MatchLists(_)
MatchLists(n) ==
  IF n = 0 THEN {<<>>}
  ELSE LET shorter == MatchLists(n - 1)
       IN  shorter \cup {Append(m, t) : m \in shorter, t \in ThreatTypes}

\* How the fetch and the response.json() of one lookup can end:
\*   rejected  - fetch throws (network error), message is error.message
\*   malformed - the body is not JSON, response.json() throws
\*   null      - the body is the JSON value null, data.matches throws
\*   object    - the body is a JSON object, with or without a matches array
LookupOutcomes ==
  {[kind |-> "rejected", message |-> "Failed to fetch",
    hasMatches |-> FALSE, matches |-> <<>>],
   [kind |-> "malformed", message |-> "Unexpected token < in JSON",
    hasMatches |-> FALSE, matches |-> <<>>],
   [kind |-> "null", message |-> "Cannot read properties of null",
    hasMatches |-> FALSE, matches |-> <<>>],
   [kind |-> "object", message |-> "",
    hasMatches |-> FALSE, matches |-> <<>>]}
  \cup
  {[kind |-> "object", message |-> "", hasMatches |-> TRUE, matches |-> m] :
     m \in MatchLists(MaxMatches)}

\* checkUrlReputation taking the presence of data.matches for a threat
checkUrlReputation_noLengthCheck(url, outcome) ==
  IF outcome.kind # "object"
  THEN [status |-> "Error", threatType |-> "Unknown", riskScore |-> 0,
        url |-> url, error |-> outcome.message]
  ELSE IF outcome.hasMatches
  THEN [status |-> "Malicious",
        threatType |-> IF Len(outcome.matches) > 0
                       THEN outcome.matches[1] ELSE "undefined",
        riskScore |-> 40, url |-> url]
  ELSE [status |-> "Safe", threatType |-> "None", riskScore |-> 0,
        url |-> url]

\* what checkUrlReputation(url) resolves to when its lookup ends in outcome
checkUrlReputation(url, outcome) ==
  IF outcome.kind # "object"
  THEN \* catch (error)
       [status |-> "Error", threatType |-> "Unknown", riskScore |-> 0,
        url |-> url, error |-> outcome.message]
  ELSE IF outcome.hasMatches /\ Len(outcome.matches) > 0
  THEN [status |-> "Malicious", threatType |-> outcome.matches[1],
        riskScore |-> 40, url |-> url]
  ELSE [status |-> "Safe", threatType |-> "None", riskScore |-> 0,
        url |-> url]

\* the response the checkReputation handler sends for a lookup result
reputationResponse(lookup) ==
  LET riskLabel == getRiskLabel(lookup.riskScore)
  IN  [success |-> TRUE,
       data |-> [url |-> lookup.url,
                 status |-> lookup.status,
                 threatType |-> lookup.threatType,
                 riskScore |-> lookup.riskScore,
                 riskLabel |-> riskLabel,
                 error |-> IF "error" \in DOMAIN lookup
                           THEN lookup.error ELSE "null"]]

\* a lookup that has not ended, a request that has not been answered
NoOutcome ==
  [kind |-> None, message |-> "", hasMatches |-> FALSE, matches |-> <<>>]

NoResponse ==
  [success |-> FALSE,
   data |-> [url |-> "", status |-> None, threatType |-> None,
             riskScore |-> 0, riskLabel |-> None, error |-> "null"]]

IdleRequest ==
  [phase |-> "idle", url |-> "", outcome |-> NoOutcome, response |-> NoResponse]

\* the handler answering a request from a lookup already in flight for the
\* same url instead of issuing its own
OnCheckReputation_coalesced(id, url) ==
  /\ requests[id].phase = "idle"
  /\ requests' = [requests EXCEPT ![id] =
                    [phase |-> "fetching", url |-> url,
                     outcome |-> NoOutcome, response |-> NoResponse]]
  /\ fetches' = IF \E other \in RequestIds :
                     /\ requests[other].phase = "fetching"
                     /\ requests[other].url = url
                 THEN fetches
                 ELSE fetches + 1
  /\ UNCHANGED outsideReputation

\* a checkReputation message arrives: the handler starts the lookup and
\* awaits the fetch
OnCheckReputation(id, url) ==
  /\ requests[id].phase = "idle"
  /\ requests' = [requests EXCEPT ![id] =
                    [phase |-> "fetching", url |-> url,
                     outcome |-> NoOutcome, response |-> NoResponse]]
  /\ fetches' = fetches + 1
  /\ UNCHANGED outsideReputation

\* the lookup of request id ends (fetch and response.json() settle) and the
\* handler calls sendResponse; nothing is shared between the two awaits
LookupSettles(id, outcome) ==
  /\ requests[id].phase = "fetching"
  /\ requests' = [requests EXCEPT ![id] =
                    [phase |-> "done", url |-> requests[id].url,
                     outcome |-> outcome,
                     response |-> reputationResponse(
                       checkUrlReputation(requests[id].url, outcome))]]
  /\ UNCHANGED <<fetches, outsideReputation>>

\* the server accepts the connection of request id and never answers: the
\* fetch is given no signal and no timeout, its promise stays pending and
\* the handler stays at its await
LookupHangs(id) ==
  /\ requests[id].phase = "fetching"
  /\ requests' = [requests EXCEPT ![id].phase = "hung"]
  /\ UNCHANGED <<fetches, outsideReputation>>

(***************************************************************************)
(* OPTION 4: URL shortener detection (content.js)                          *)
(***************************************************************************)
URL_SHORTENERS ==
  <<
  "bit.ly", "tinyurl.com", "goo.gl", "ow.ly", "short.link", "t.co",
  "buff.ly", "adf.ly", "is.gd", "cli.gs", "tiny.cc", "u.to", "j.mp", "tr.im",
  "soo.gd", "rebrand.ly", "bl.ink", "shorturl.at", "cutt.ly", "s.id",
  "bitly.com", "shorturl.com", "miniurl.com", "snip.ly"
  >>

\* String.prototype.replace with a string pattern: the first occurrence only
replace(s, pattern, replacement) ==
  LET i == indexOf(s, pattern)
  IN  IF i = 0 THEN s
      ELSE SubSeq(s, 1, i - 1) \o replacement
             \o SubSeq(s, i + Len(pattern), Len(s))


\* detectUrlShortener for a page whose window.location.hostname is host
detectUrlShortener(host) ==
  LET currentDomain == replace(host, "www.", "")
      isShortener == \E i \in 1..Len(URL_SHORTENERS) :
                       currentDomain = URL_SHORTENERS[i]
  IN  [isShortener |-> isShortener, domain |-> currentDomain]

\* new URL(href).hostname: [ok |-> FALSE] when the constructor throws.
\* The authority runs from "://" to the next "/", a port is cut off, the
\* host is lowercased; http and https need a host.
urlHostname(href) ==
  LET sep == indexOf(href, "://")
      colon == indexOf(href, ":")
  IN  IF colon <= 1
      THEN [ok |-> FALSE, hostname |-> ""]
      ELSE IF sep # colon
      THEN [ok |-> TRUE, hostname |-> ""]
      ELSE LET scheme == toLowerCase(SubSeq(href, 1, sep - 1))
               rest == SubSeq(href, sep + 3, Len(href))
               slash == indexOf(rest, "/")
               authority == IF slash = 0 THEN rest
                            ELSE SubSeq(rest, 1, slash - 1)
               port == indexOf(authority, ":")
               host == IF port = 0 THEN authority
                       ELSE SubSeq(authority, 1, port - 1)
           IN  IF scheme \in {"http", "https"} /\ host = ""
               THEN [ok |-> FALSE, hostname |-> ""]
               ELSE [ok |-> TRUE, hostname |-> toLowerCase(host)]

\* the link scan with the try/catch around the loop instead of inside it: the
\* first href that does not parse ends the scan
RECURSIVE scanLinks_abortOnInvalid(_)
scanLinks_abortOnInvalid(hrefs) ==
  IF hrefs = <<>> THEN <<>>
  ELSE LET href == Head(hrefs)
           parsed == urlHostname(href)
           linkDomain == replace(parsed.hostname, "www.", "")
           isShortened == \E i \in 1..Len(URL_SHORTENERS) :
                            linkDomain = URL_SHORTENERS[i]
       IN  IF ~parsed.ok
           THEN <<>>
           ELSE IF isShortened
           THEN <<[url |-> href, domain |-> linkDomain]>>
                  \o scanLinks_abortOnInvalid(Tail(hrefs))
           ELSE scanLinks_abortOnInvalid(Tail(hrefs))

\* the links.forEach of the analyzeShortener handler over hrefs; the text
\* of an entry (the link's label) is left out
RECURSIVE scanLinks(_)
scanLinks(hrefs) ==
  IF hrefs = <<>> THEN <<>>
  ELSE LET href == Head(hrefs)
           parsed == urlHostname(href)
           linkDomain == replace(parsed.hostname, "www.", "")
           isShortened == \E i \in 1..Len(URL_SHORTENERS) :
                            linkDomain = URL_SHORTENERS[i]
       IN  IF parsed.ok /\ isShortened
           THEN <<[url |-> href, domain |-> linkDomain]>>
                  \o scanLinks(Tail(hrefs))
           ELSE scanLinks(Tail(hrefs))

MaxLabels ==
  3

MaxLinks ==
  2

HostLabels ==
  {"www", "bit", "ly", "notbit", "com"}

\* host names of up to n labels joined by dots
RECURSIVE HostNames(_)
HostNames(n) ==
  IF n = 1 THEN HostLabels
  ELSE LET shorter == HostNames(n - 1)
       IN  shorter \cup {h \o "." \o l : h \in shorter, l \in HostLabels}

LinkHrefs ==
  {"https://bit.ly/a", "https://www.bit.ly/a", "https://example.com/",
   "https://bit.www.ly/x", "http://"}

RECURSIVE LinkLists(_)
LinkLists(n) ==
  IF n = 0 THEN {<<>>}
  ELSE LET shorter == LinkLists(n - 1)
       IN  shorter \cup {Append(l, h) : l \in shorter, h \in LinkHrefs}

\* before detectUrlShortener has been called
NoShortenerResult ==
  [isShortener |-> FALSE, domain |-> None]

\* before the analyzeShortener message has been answered
NoAnalyzeResponse ==
  [success |-> FALSE, currentUrl |-> NoShortenerResult, linksFound |-> <<>>]

\* detectUrlShortener as init and the settings listener call it
CallDetectUrlShortener ==
  /\ shortenerResult' = detectUrlShortener(hostname)
  /\ UNCHANGED <<hostname, links, analyzeResponse, outsideShortener>>

\* the analyzeShortener message handler
OnAnalyzeShortener ==
  /\ analyzeResponse' =
       [success |-> TRUE,
        currentUrl |-> detectUrlShortener(hostname),
        linksFound |-> scanLinks(links)]
  /\ UNCHANGED <<hostname, links, shortenerResult, outsideShortener>>

(***************************************************************************)
(* OPTION 3: form security analysis (content.js)                           *)
(*                                                                         *)
(* A call either returns a value or throws; a try/catch turns a throw of   *)
(* its try block into the value its catch block returns.                   *)
(***************************************************************************)
Normal(v) ==
  [threw |-> FALSE, value |-> v]

Thrown ==
  [threw |-> TRUE, value |-> FALSE]

\* try { c } catch { return fallback }
caught(c, fallback) ==
  IF c.threw THEN Normal(fallback) ELSE c

\* getDomain resolving the action against the page, new URL(url, base):
\* a scheme-relative action then names its own host
getDomain_withBase(url, host) ==
  IF url = "" \/ url = "#"
  THEN host
  ELSE IF startsWith(url, "//")
  THEN LET parsed == urlHostname("https:" \o url)
       IN  IF parsed.ok THEN parsed.hostname ELSE host
  ELSE IF startsWith(url, "/") \/ ~includes(url, "://")
  THEN host
  ELSE LET parsed == urlHostname(url)
       IN  IF parsed.ok THEN parsed.hostname ELSE host

\* getDomain(url) on a page whose window.location.hostname is host
getDomain(url, host) ==
  IF url = "" \/ url = "#"
  THEN host
  ELSE IF startsWith(url, "/") \/ ~includes(url, "://")
  THEN host
  ELSE LET parsed == urlHostname(url)
       IN  IF parsed.ok
           THEN parsed.hostname
           ELSE \* catch (e)
                host

cardKeywords ==
  <<"card", "credit", "debit", "cvv", "cvc", "expiry">>

\* the try block of isSensitiveInput testing the name only
isSensitiveInputTry_nameOnly(input) ==
  IF ~input.hasType
  THEN Thrown
  ELSE LET type == toLowerCase(input.type)
           name == toLowerCase(input.name)
       IN  IF type = "password" THEN Normal(TRUE)
           ELSE IF type = "email" THEN Normal(TRUE)
           ELSE Normal(\E i \in 1..Len(cardKeywords) :
                         includes(name, cardKeywords[i]))

\* the try block of isSensitiveInput; input is [hasType, type, name, id],
\* input.type.toLowerCase() throws when the input has no type
isSensitiveInputTry(input) ==
  IF ~input.hasType
  THEN Thrown
  ELSE LET type == toLowerCase(input.type)
           name == toLowerCase(input.name)
           id == toLowerCase(input.id)
       IN  IF type = "password" THEN Normal(TRUE)
           ELSE IF type = "email" THEN Normal(TRUE)
           ELSE LET isCreditCard ==
                      \E i \in 1..Len(cardKeywords) :
                        \/ includes(name, cardKeywords[i])
                        \/ includes(id, cardKeywords[i])
                IN  Normal(isCreditCard)

\* isSensitiveInput without its try/catch
isSensitiveInputOutcome_noCatch(input) ==
  isSensitiveInputTry(input)

\* how a call of isSensitiveInput ends
isSensitiveInputOutcome(input) ==
  caught(isSensitiveInputTry(input), FALSE)

isSensitiveInput(input) ==
  isSensitiveInputOutcome(input).value

\* the try block of analyzeForm flagging on either condition
analyzeFormTry_eitherCondition(f, host) ==
  IF ~f.readable
  THEN Thrown
  ELSE LET formDomain == getDomain(f.action, host)
           sensitiveInputs == SelectSeq(f.inputs, isSensitiveInput)
       IN  Normal([formDomain |-> formDomain,
                   currentDomain |-> host,
                   sensitiveInputs |-> sensitiveInputs,
                   isSuspicious |-> \/ Len(sensitiveInputs) > 0
                                    \/ formDomain # host])

\* the try block of analyzeForm; f is [action, inputs, readable],
\* form.querySelectorAll throws when the fields cannot be read
analyzeFormTry(f, host) ==
  IF ~f.readable
  THEN Thrown
  ELSE LET formAction == f.action
           formDomain == getDomain(formAction, host)
           currentDomain == host
           sensitiveInputs == SelectSeq(f.inputs, isSensitiveInput)
           isSuspicious == /\ Len(sensitiveInputs) > 0
                           /\ formDomain # currentDomain
       IN  Normal([formDomain |-> formDomain,
                   currentDomain |-> currentDomain,
                   sensitiveInputs |-> sensitiveInputs,
                   isSuspicious |-> isSuspicious])

\* how a call of analyzeForm ends
analyzeFormOutcome(f, host) ==
  caught(analyzeFormTry(f, host),
         [formDomain |-> "", currentDomain |-> host,
          sensitiveInputs |-> <<>>, isSuspicious |-> FALSE])

analyzeForm(f, host) ==
  analyzeFormOutcome(f, host).value

MaxInputs ==
  2

\* window.location.hostname of the page that holds the form
FormHosts ==
  {"bank.com", "evil.com"}

\* the action handed to getDomain
FormActions ==
  {"", "#", "/submit", "login.php", "mailto:a@evil.com",
   "//evil.com/submit", "https://evil.com/submit",
   "https://bank.com/login", "HTTPS://BANK.COM/login",
   "https://bank.com:8443/pay", "https://www.bank.com/login", "http://"}

\* input elements of a form: every one has a type
FormInputs ==
  {[hasType |-> TRUE, type |-> "password", name |-> "pw", id |-> ""],
   [hasType |-> TRUE, type |-> "Email", name |-> "", id |-> "mail"],
   [hasType |-> TRUE, type |-> "text", name |-> "user", id |-> "user"],
   [hasType |-> TRUE, type |-> "text", name |-> "CardNumber", id |-> ""],
   [hasType |-> TRUE, type |-> "text", name |-> "", id |-> "cvv"],
   [hasType |-> TRUE, type |-> "hidden", name |-> "discard", id |-> ""],
   [hasType |-> TRUE, type |-> "text", name |-> "q", id |-> "search"]}

RECURSIVE InputLists(_)
InputLists(n) ==
  IF n = 0 THEN {<<>>}
  ELSE LET shorter == InputLists(n - 1)
       IN  shorter \cup {Append(l, i) : l \in shorter, i \in FormInputs}

NoFormResult ==
  [op |-> None]

CallGetDomain ==
  /\ formResult' = [op |-> "getDomain",
                    value |-> getDomain(form.action, hostname)]
  /\ UNCHANGED <<form, hostname, outsideForm>>

CallIsSensitiveInput ==
  /\ \E i \in 1..Len(form.inputs) :
       formResult' = [op |-> "isSensitiveInput", input |-> form.inputs[i],
                      value |-> isSensitiveInput(form.inputs[i])]
  /\ UNCHANGED <<form, hostname, outsideForm>>

CallAnalyzeForm ==
  /\ formResult' = [op |-> "analyzeForm",
                    value |-> analyzeForm(form, hostname)]
  /\ UNCHANGED <<form, hostname, outsideForm>>

(***************************************************************************)
(* The classifiers called with inputs that make their bodies fail          *)
(***************************************************************************)
\* a value of any JavaScript type is [type, text]; text is its content when
\* it is a string: !text is true of null, undefined and 0, and typeof text
\* is not 'string' for a number and an object
hasStudyKeywordValue(v) ==
  IF v.type = "null" \/ v.type = "undefined" \/ (v.type = "number" /\ v.text = "0")
  THEN FALSE
  ELSE IF v.type # "string"
  THEN FALSE
  ELSE hasStudyKeyword(v.text)

hasBlockKeywordValue(v) ==
  IF v.type = "null" \/ v.type = "undefined" \/ (v.type = "number" /\ v.text = "0")
  THEN FALSE
  ELSE IF v.type # "string"
  THEN FALSE
  ELSE hasBlockKeyword(v.text)

\* how a call ends: the try block around each body, and its catch
hasStudyKeywordOutcome(v) ==
  caught(Normal(hasStudyKeywordValue(v)), FALSE)

hasBlockKeywordOutcome(v) ==
  caught(Normal(hasBlockKeywordValue(v)), FALSE)

shouldPlayVideoOutcome(element) ==
  caught(Normal(shouldPlayVideo(element)), FALSE)

detectUrlShortenerOutcome(host) ==
  caught(Normal(detectUrlShortener(host)),
         [isShortener |-> FALSE, domain |-> ""])

FaultTexts ==
  {"", " ", "CLASS", "Mix"}

JsValues ==
  [type : {"string"}, text : FaultTexts]
    \cup {[type |-> "number", text |-> "0"], [type |-> "number", text |-> "42"],
          [type |-> "null", text |-> ""], [type |-> "undefined", text |-> ""],
          [type |-> "object", text |-> ""]}

PasswordInput ==
  [hasType |-> TRUE, type |-> "password", name |-> "pw", id |-> ""]

\* an input element that has no type property
TypelessInput ==
  [hasType |-> FALSE, type |-> "", name |-> "card", id |-> ""]

FaultInputLists ==
  {<<>>, <<PasswordInput>>, <<TypelessInput>>,
   <<TypelessInput, PasswordInput>>}

NoCompletion ==
  [op |-> None, hostile |-> FALSE, threw |-> FALSE, value |-> FALSE,
   sensitive |-> 0]

CallHasStudyKeywordValue ==
  /\ LET c == hasStudyKeywordOutcome(textValue)
     IN  completion' = [op |-> "hasStudyKeyword",
                        hostile |-> textValue.type # "string",
                        threw |-> c.threw, value |-> c.value,
                        sensitive |-> 0]
  /\ UNCHANGED <<textValue, classifyVars, labelVars, reputationVars,
                 shortenerVars, formVars, contentVars, popupVars,
                 seen, settingsVars>>

CallHasBlockKeywordValue ==
  /\ LET c == hasBlockKeywordOutcome(textValue)
     IN  completion' = [op |-> "hasBlockKeyword",
                        hostile |-> textValue.type # "string",
                        threw |-> c.threw, value |-> c.value,
                        sensitive |-> 0]
  /\ UNCHANGED <<textValue, classifyVars, labelVars, reputationVars,
                 shortenerVars, formVars, contentVars, popupVars,
                 seen, settingsVars>>

CallShouldPlayVideoElement ==
  /\ LET c == shouldPlayVideoOutcome(videoElement)
     IN  completion' = [op |-> "shouldPlayVideo",
                        hostile |-> ~videoElement.readable,
                        threw |-> c.threw, value |-> c.value,
                        sensitive |-> 0]
  /\ UNCHANGED <<textValue, classifyVars, labelVars, reputationVars,
                 shortenerVars, formVars, contentVars, popupVars,
                 seen, settingsVars>>

CallIsSensitiveInputElement ==
  \E i \in 1..Len(form.inputs) :
    /\ LET c == isSensitiveInputOutcome(form.inputs[i])
       IN  completion' = [op |-> "isSensitiveInput",
                          hostile |-> ~form.inputs[i].hasType,
                          threw |-> c.threw, value |-> c.value,
                          sensitive |-> 0]
    /\ UNCHANGED <<textValue, classifyVars, labelVars, reputationVars,
                   shortenerVars, formVars, contentVars, popupVars,
                 seen, settingsVars>>

CallAnalyzeFormElement ==
  /\ LET c == analyzeFormOutcome(form, hostname)
     IN  completion' =
           IF c.threw
           THEN [op |-> "analyzeForm", hostile |-> ~form.readable,
                 threw |-> TRUE, value |-> FALSE, sensitive |-> 0]
           ELSE [op |-> "analyzeForm", hostile |-> ~form.readable,
                 threw |-> FALSE, value |-> c.value.isSuspicious,
                 sensitive |-> Len(c.value.sensitiveInputs)]
  /\ UNCHANGED <<textValue, classifyVars, labelVars, reputationVars,
                 shortenerVars, formVars, contentVars, popupVars,
                 seen, settingsVars>>

CallDetectUrlShortenerPage ==
  /\ LET c == detectUrlShortenerOutcome(hostname)
     IN  completion' =
           IF c.threw
           THEN [op |-> "detectUrlShortener", hostile |-> FALSE,
                 threw |-> TRUE, value |-> FALSE, sensitive |-> 0]
           ELSE [op |-> "detectUrlShortener", hostile |-> FALSE,
                 threw |-> FALSE, value |-> c.value.isShortener,
                 sensitive |-> 0]
  /\ UNCHANGED <<textValue, classifyVars, labelVars, reputationVars,
                 shortenerVars, formVars, contentVars, popupVars,
                 seen, settingsVars>>

(***************************************************************************)
(* The content script on a page (content.js)                               *)
(*                                                                         *)
(* The page holds one video element (videoElement, of renderer type        *)
(* page.kind), one shorts shelf, one element titled Shorts, one form       *)
(* (form) and, on a watch page, the player with the watch title.  Every    *)
(* function of the script maps the script's state w = [securityState,      *)
(* timers, dom] to the state it leaves.                                    *)
(***************************************************************************)
Keys ==
  {"youtubeStudyMode", "formAnalysisMode", "urlShortenerMode"}

videoSelectors ==
  <<"ytd-rich-item-renderer", "ytd-grid-video-renderer",
    "ytd-video-renderer", "ytd-compact-video-renderer">>

\* the selectors of the videos that cleanupYouTubeBlocks resets
cleanupSelectors ==
  <<"ytd-rich-item-renderer", "ytd-video-renderer">>

Matches(selectors, kind) ==
  \E i \in 1..Len(selectors) : selectors[i] = kind

isYouTube ==
  includes(hostname, "youtube.com")

onWatchPage ==
  includes(page.pathname, "/watch")

\* parent.removeChild(parent.querySelector(...)): the first one goes
removeFirst(n) ==
  IF n > 0 THEN n - 1 ELSE 0

\* the callback of the 1000 ms timer of blockNonStudyVideos
watchPageTimer(w) ==
  IF ~page.hasPlayer
  THEN w
  ELSE IF ~shouldPlayWatchPage(page.watch)
  THEN [w EXCEPT !.dom.playerOpacity = "0.3",
                 !.dom.watchOverlays =
                    IF @ = 0 THEN 1 ELSE @,
                 !.dom.playerPosition =
                    IF w.dom.watchOverlays = 0 THEN "relative" ELSE @]
  ELSE [w EXCEPT !.dom.playerOpacity = "1",
                 !.dom.watchOverlays = removeFirst(@)]

\* a scan whose allow branch leaves the overlay of an earlier run
blockNonStudyVideos_keepsOverlay(w) ==
  IF ~w.securityState.youtubeStudyMode \/ ~isYouTube
  THEN w
  ELSE LET shorts == [w EXCEPT !.dom.reelDisplay = "none",
                               !.dom.shortsTitledDisplay = "none"]
           shouldPlay == shouldPlayVideo(videoElement)
           videos ==
             IF ~Matches(videoSelectors, page.kind)
             THEN shorts
             ELSE IF ~shouldPlay
             THEN IF shorts.dom.studyOverlays = 0
                  THEN [shorts EXCEPT !.dom.videoPosition = "relative",
                                      !.dom.videoOpacity = "0.7",
                                      !.dom.studyOverlays = 1,
                                      !.dom.linkPointerEvents = "none"]
                  ELSE shorts
             ELSE [shorts EXCEPT !.dom.videoOpacity = "1",
                                 !.dom.linkPointerEvents = ""]
       IN  IF onWatchPage
           THEN [videos EXCEPT !.timers.watch = @ + 1]
           ELSE videos

blockNonStudyVideos(w) ==
  IF ~w.securityState.youtubeStudyMode \/ ~isYouTube
  THEN w
  ELSE LET shorts == [w EXCEPT !.dom.reelDisplay = "none",
                               !.dom.shortsTitledDisplay = "none"]
           shouldPlay == shouldPlayVideo(videoElement)
           videos ==
             IF ~Matches(videoSelectors, page.kind)
             THEN shorts
             ELSE IF ~shouldPlay
             THEN IF shorts.dom.studyOverlays = 0
                  THEN [shorts EXCEPT !.dom.videoPosition = "relative",
                                      !.dom.videoOpacity = "0.7",
                                      !.dom.studyOverlays = 1,
                                      !.dom.linkPointerEvents = "none"]
                  ELSE shorts
             ELSE [shorts EXCEPT !.dom.videoOpacity = "1",
                                 !.dom.studyOverlays = removeFirst(@),
                                 !.dom.linkPointerEvents = ""]
       IN  IF onWatchPage
           THEN [videos EXCEPT !.timers.watch = @ + 1]
           ELSE videos

cleanupYouTubeBlocks(w) ==
  LET overlays == [w EXCEPT !.dom.studyOverlays = 0,
                            !.dom.watchOverlays = 0]
      shorts == [overlays EXCEPT !.dom.reelDisplay = ""]
      videos ==
        IF Matches(cleanupSelectors, page.kind)
        THEN [shorts EXCEPT !.dom.videoOpacity = "1",
                            !.dom.videoPosition = "",
                            !.dom.linkPointerEvents = ""]
        ELSE shorts
  IN  IF page.hasPlayer
      THEN [videos EXCEPT !.dom.playerOpacity = "1",
                          !.dom.playerPosition = ""]
      ELSE videos

\* securityState.youtubeObserver.disconnect()
disconnect(w) ==
  IF w.securityState.youtubeObserver = "connected"
  THEN [w EXCEPT !.securityState.youtubeObserver = "disconnected",
                 !.dom.observers = @ - 1]
  ELSE w

\* an observer set up without disconnecting the one before it
setupYouTubeObserver_keepsOld(w) ==
  [w EXCEPT !.securityState.youtubeObserver = "connected",
            !.dom.observers = @ + 1]

setupYouTubeObserver(w) ==
  LET old == IF w.securityState.youtubeObserver # "null"
             THEN disconnect(w) ELSE w
  IN  [old EXCEPT !.securityState.youtubeObserver = "connected",
                  !.dom.observers = @ + 1]

initYouTubeStudyMode(w) ==
  IF ~isYouTube
  THEN w
  ELSE IF w.securityState.youtubeStudyMode
  THEN LET blocked == blockNonStudyVideos(w)
           observed == setupYouTubeObserver(blocked)
       IN  [observed EXCEPT !.timers.rescan = @ + 2]
  ELSE LET cleaned == cleanupYouTubeBlocks(w)
       IN  IF cleaned.securityState.youtubeObserver # "null"
           THEN disconnect(cleaned)
           ELSE cleaned

\* the inputs of the page's form that analyzeForm reports as sensitive
sensitiveIndices ==
  {i \in 1..Len(form.inputs) : isSensitiveInput(form.inputs[i])}

\* a scan that returns with the mode off without removing the highlights
scanFormsOnPage_keepsHighlights(w) ==
  IF ~w.securityState.formAnalysisMode
  THEN w
  ELSE LET analysis == analyzeForm(form, hostname)
       IN  IF analysis.isSuspicious
           THEN [w EXCEPT !.dom.highlighted = @ \cup sensitiveIndices,
                          !.dom.submitListeners =
                             IF w.dom.warningAdded THEN @ ELSE @ + 1,
                          !.dom.warningAdded = TRUE]
           ELSE w

\* a scan that adds the submit listener without looking at the mark of the
\* form
scanFormsOnPage_listenerEachScan(w) ==
  IF ~w.securityState.formAnalysisMode
  THEN [w EXCEPT !.dom.highlighted = {}]
  ELSE LET analysis == analyzeForm(form, hostname)
       IN  IF analysis.isSuspicious
           THEN [w EXCEPT !.dom.highlighted = @ \cup sensitiveIndices,
                          !.dom.submitListeners = @ + 1,
                          !.dom.warningAdded = TRUE]
           ELSE w

scanFormsOnPage(w) ==
  IF ~w.securityState.formAnalysisMode
  THEN \* removeInputHighlights()
       [w EXCEPT !.dom.highlighted = {}]
  ELSE LET analysis == analyzeForm(form, hostname)
       IN  IF analysis.isSuspicious
           THEN [w EXCEPT !.dom.highlighted = @ \cup sensitiveIndices,
                          !.dom.submitListeners =
                             IF w.dom.warningAdded THEN @ ELSE @ + 1,
                          !.dom.warningAdded = TRUE]
           ELSE w

\* a warning inserted without looking for a banner already there
showShortenerWarning_noCheck(w) ==
  [w EXCEPT !.dom.banners = @ + 1]

showShortenerWarning(w) ==
  IF w.dom.banners > 0
  THEN w
  ELSE [w EXCEPT !.dom.banners = @ + 1]

\* the shortener part of init and of the storage listener when the mode is on
warnOnShortener(w) ==
  LET shortenerResult_ == detectUrlShortener(hostname)
  IN  IF shortenerResult_.isShortener
      THEN showShortenerWarning(w)
      ELSE w

\* result.key || false
orFalse(value) ==
  value = "true"

\* the callback of chrome.storage.sync.get in init
initCallback(w, items) ==
  LET read == [w EXCEPT
                 !.securityState.youtubeStudyMode =
                    orFalse(items["youtubeStudyMode"]),
                 !.securityState.formAnalysisMode =
                    orFalse(items["formAnalysisMode"]),
                 !.securityState.urlShortenerMode =
                    orFalse(items["urlShortenerMode"])]
      youtube == IF isYouTube THEN initYouTubeStudyMode(read) ELSE read
      forms == IF youtube.securityState.formAnalysisMode
               THEN scanFormsOnPage(youtube) ELSE youtube
  IN  IF forms.securityState.urlShortenerMode
      THEN warnOnShortener(forms)
      ELSE forms

\* the storage listener writing all three toggles from every event, a key
\* the event does not name counting as off
onStorageChanged_resetOthers(w, changes) ==
  [w EXCEPT
     !.securityState.youtubeStudyMode =
        "youtubeStudyMode" \in DOMAIN changes /\ changes["youtubeStudyMode"],
     !.securityState.formAnalysisMode =
        "formAnalysisMode" \in DOMAIN changes /\ changes["formAnalysisMode"],
     !.securityState.urlShortenerMode =
        "urlShortenerMode" \in DOMAIN changes /\ changes["urlShortenerMode"]]

\* the chrome.storage.onChanged listener; changes maps each named key to its
\* newValue
\* a listener that leaves the banner when the alert is switched off
onStorageChanged_keepsBanner(w, changes) ==
  LET youtube ==
        IF "youtubeStudyMode" \in DOMAIN changes
        THEN LET set == [w EXCEPT !.securityState.youtubeStudyMode =
                                     changes["youtubeStudyMode"]]
             IN  IF isYouTube THEN initYouTubeStudyMode(set) ELSE set
        ELSE w
      forms ==
        IF "formAnalysisMode" \in DOMAIN changes
        THEN scanFormsOnPage(
               [youtube EXCEPT !.securityState.formAnalysisMode =
                                  changes["formAnalysisMode"]])
        ELSE youtube
  IN  IF "urlShortenerMode" \in DOMAIN changes
      THEN LET set == [forms EXCEPT !.securityState.urlShortenerMode =
                                       changes["urlShortenerMode"]]
           IN  IF set.securityState.urlShortenerMode
               THEN warnOnShortener(set)
               ELSE set
      ELSE forms

onStorageChanged(w, changes) ==
  LET youtube ==
        IF "youtubeStudyMode" \in DOMAIN changes
        THEN LET set == [w EXCEPT !.securityState.youtubeStudyMode =
                                     changes["youtubeStudyMode"]]
             IN  IF isYouTube THEN initYouTubeStudyMode(set) ELSE set
        ELSE w
      forms ==
        IF "formAnalysisMode" \in DOMAIN changes
        THEN scanFormsOnPage(
               [youtube EXCEPT !.securityState.formAnalysisMode =
                                  changes["formAnalysisMode"]])
        ELSE youtube
  IN  IF "urlShortenerMode" \in DOMAIN changes
      THEN LET set == [forms EXCEPT !.securityState.urlShortenerMode =
                                       changes["urlShortenerMode"]]
           IN  IF set.securityState.urlShortenerMode
               THEN warnOnShortener(set)
               ELSE [set EXCEPT !.dom.banners = removeFirst(@)]
      ELSE forms

MaxTimers ==
  2

\* the titles and the forms of the pages the script runs in
PageTitles ==
  {"Mix", "CLASS"}

SuspiciousForm ==
  [action |-> "https://evil.com/submit", inputs |-> <<PasswordInput>>,
   readable |-> TRUE]

BenignForm ==
  [action |-> "/submit", inputs |-> <<PasswordInput>>, readable |-> TRUE]

\* the events chrome.storage.onChanged can deliver: some keys, each with its
\* new value
ChangeEvents ==
  UNION {[named -> BOOLEAN] : named \in (SUBSET Keys) \ {{}}}

world ==
  [securityState |-> securityState, timers |-> timers, dom |-> dom]

\* the script is left in state w, if its timeouts fit the bound
Leaves(w) ==
  /\ w.timers.rescan <= MaxTimers
  /\ w.timers.watch <= MaxTimers
  /\ securityState' = w.securityState
  /\ timers' = w.timers
  /\ dom' = w.dom

outsideContent ==
  <<classifyVars, labelVars, reputationVars, shortenerVars, formVars,
    faultVars, page, popupVars, seen, submitted, settingsVars>>

storedValue(value) ==
  IF value THEN "true" ELSE "false"

\* the storage read of init is answered
OnStorageGet ==
  /\ phase = "loading"
  /\ phase' = "ready"
  /\ Leaves(initCallback(world, stored))
  /\ UNCHANGED <<stored, outsideContent>>

\* a setting is written and the listener of the content script is called
OnStorageChanged(changes) ==
  /\ stored' = [k \in Keys |-> IF k \in DOMAIN changes
                               THEN storedValue(changes[k])
                               ELSE stored[k]]
  /\ Leaves(onStorageChanged(world, changes))
  /\ UNCHANGED <<phase, outsideContent>>

\* the page changes under a connected observer, whose callback runs
ObserverCallback ==
  /\ dom.observers > 0
  /\ Leaves(IF securityState.youtubeStudyMode /\ isYouTube
            THEN [world EXCEPT !.timers.rescan = @ + 1]
            ELSE world)
  /\ UNCHANGED <<stored, phase, outsideContent>>

\* one of the timeouts set with setTimeout(blockNonStudyVideos, ...) fires
RescanTimerFires ==
  /\ timers.rescan > 0
  /\ Leaves(blockNonStudyVideos([world EXCEPT !.timers.rescan = @ - 1]))
  /\ UNCHANGED <<stored, phase, outsideContent>>

\* the 1000 ms timeout of a watch page fires
WatchTimerFires ==
  /\ timers.watch > 0
  /\ Leaves(watchPageTimer([world EXCEPT !.timers.watch = @ - 1]))
  /\ UNCHANGED <<stored, phase, outsideContent>>

\* YouTube puts another video into the element the script looks at
VideoChanges(title) ==
  /\ isYouTube
  /\ title # videoElement.title
  /\ videoElement' = [videoElement EXCEPT !.title = title]
  /\ UNCHANGED <<result, labelVars, reputationVars, shortenerVars, formVars,
                 faultVars, contentVars, popupVars, seen, settingsVars>>

\* the user clicks the dismiss button of the banner
OnDismissClick ==
  /\ dom.banners > 0
  /\ Leaves([world EXCEPT !.dom.banners = removeFirst(@)])
  /\ UNCHANGED <<stored, phase, outsideContent>>

\* a submit listener that returns at once when the scanner is off
submitListener_checksMode(w, confirmed) ==
  [prompts |-> IF w.securityState.formAnalysisMode THEN 1 ELSE 0,
   prevented |-> w.securityState.formAnalysisMode /\ ~confirmed]

\* the submit listener scanFormsOnPage adds to a suspicious form
submitListener(w, confirmed) ==
  [prompts |-> 1, prevented |-> ~confirmed]

\* the form of the page is submitted: its capture listeners run, and the
\* user answers the prompt of each with confirmed
OnSubmit(confirmed) ==
  /\ phase = "ready"
  /\ LET ran == submitListener(world, confirmed)
         listening == dom.submitListeners > 0
     IN  submitted' =
           [done |-> TRUE,
            prompts |-> IF listening
                        THEN dom.submitListeners * ran.prompts ELSE 0,
            confirmed |-> confirmed,
            prevented |-> listening /\ ran.prevented,
            scannerOn |-> securityState.formAnalysisMode,
            foundSuspicious |-> dom.warningAdded]
  /\ UNCHANGED <<securityState, timers, dom, stored, phase, page,
                 classifyVars, labelVars, reputationVars, shortenerVars,
                 formVars, faultVars, popupVars, seen, settingsVars>>

(***************************************************************************)
(* The reputation tab of the popup (popup.js)                              *)
(***************************************************************************)
\* the capital letter of every lowercase letter
upperCaseOf ==
  [c \in {SubSeq(LowerChars, i, i) : i \in 1..Len(LowerChars)} |->
     LET i == CHOOSE j \in 1..Len(LowerChars) : SubSeq(LowerChars, j, j) = c
     IN  SubSeq(UpperChars, i, i)]

\* one character of String.prototype.toUpperCase
toUpperCaseChar(c) ==
  IF c \in DOMAIN upperCaseOf THEN upperCaseOf[c] ELSE c

\* threatType.split('_').map(capitalise first, lowercase rest).join(' '),
\* one character at a time; wordStart says a word begins at the first one
RECURSIVE capitaliseWords(_, _)
capitaliseWords(text, wordStart) ==
  IF text = ""
  THEN ""
  ELSE LET c == SubSeq(text, 1, 1)
           rest == SubSeq(text, 2, Len(text))
       IN  IF c = "_"
           THEN " " \o capitaliseWords(rest, TRUE)
           ELSE IF wordStart
           THEN toUpperCaseChar(c) \o capitaliseWords(rest, FALSE)
           ELSE toLowerCaseChar(c) \o capitaliseWords(rest, FALSE)

formatThreatType(threatType) ==
  IF threatType = "None"
  THEN "No threats detected"
  ELSE capitaliseWords(threatType, TRUE)

Digits ==
  <<"0", "1", "2", "3", "4", "5", "6", "7", "8", "9">>

\* the decimal text a template literal makes of a score from 0 upwards
RECURSIVE numberText(_)
numberText(n) ==
  IF n < 10 THEN Digits[n + 1]
  ELSE numberText(n \div 10) \o Digits[(n % 10) + 1]

showInitialState(p) ==
  [p EXCEPT !.initialHidden = FALSE, !.loadingHidden = TRUE,
            !.errorHidden = TRUE, !.resultsHidden = TRUE]

showLoading(p) ==
  [p EXCEPT !.initialHidden = TRUE, !.loadingHidden = FALSE,
            !.errorHidden = TRUE, !.resultsHidden = TRUE]

showError(p, message) ==
  [p EXCEPT !.loadingHidden = TRUE, !.errorHidden = FALSE,
            !.resultsHidden = TRUE, !.errorMessage = message]

showResults(p) ==
  [p EXCEPT !.loadingHidden = TRUE, !.errorHidden = TRUE,
            !.resultsHidden = FALSE]

displayResults(p, data) ==
  LET riskScore == data.riskScore
  IN  showResults(
        [p EXCEPT
           !.urlDisplay = data.url,
           !.statusBadge = data.status,
           !.statusClass = IF data.status = "Safe" THEN "status-safe"
                           ELSE IF data.status = "Malicious"
                           THEN "status-malicious"
                           ELSE "status-error",
           !.threatDisplay = formatThreatType(data.threatType),
           !.threatClass = IF data.threatType = "None" THEN "threat-none"
                           ELSE "threat-detected",
           !.riskBarWidth = IF riskScore > 5 THEN riskScore ELSE 5,
           !.riskBarClass =
              IF riskScore >= 0 /\ riskScore <= 30 THEN "risk-safe"
              ELSE IF riskScore >= 31 /\ riskScore <= 60
              THEN "risk-suspicious"
              ELSE IF riskScore >= 61 /\ riskScore <= 100 THEN "risk-high"
              ELSE "",
           !.riskBarText = numberText(riskScore) \o "%",
           !.riskScoreText =
              "Risk Score: " \o numberText(riskScore) \o " / 100",
           !.finalLabel = data.riskLabel,
           !.labelClass =
              IF data.riskLabel = "Safe" THEN "label-safe"
              ELSE IF data.riskLabel = "Suspicious" THEN "label-suspicious"
              ELSE IF data.riskLabel = "High Risk" THEN "label-high-risk"
              ELSE ""])

\* the callback of chrome.runtime.sendMessage, given a response
responseCallback(p, response) ==
  IF response.success
  THEN displayResults(p, response.data)
  ELSE showError(p, "Error checking reputation: " \o response.error)

\* the popup as init leaves it; answer is the request whose response the
\* panels show, 0 when they show none
PopupOpened ==
  [initialHidden |-> FALSE, loadingHidden |-> TRUE, errorHidden |-> TRUE,
   resultsHidden |-> TRUE, errorMessage |-> "", urlDisplay |-> "",
   statusBadge |-> "", statusClass |-> "", threatDisplay |-> "",
   threatClass |-> "", riskBarWidth |-> 0, riskBarClass |-> "",
   riskBarText |-> "", riskScoreText |-> "", finalLabel |-> "",
   labelClass |-> "", answer |-> 0]

\* a request the popup has not made: order is its place among the requests
\* issued, tabUrl the url chrome.tabs.query gave for it
NoCall ==
  [status |-> "no", via |-> None, url |-> "", tabUrl |-> "", order |-> 0]

\* the place of the next request among those issued so far
issued(made) ==
  Cardinality({id \in DOMAIN made : made[id].order > 0}) + 1

\* the requests the popup makes, the urls of the active tab, the texts of
\* the url field and the ends of a lookup
PopupRequests ==
  {id \in RequestIds : id <= 2}

TabUrls ==
  {"", "chrome://extensions/", "chrome-extension://a/popup.html",
   "edge://settings/", "about:blank", "https://example.com/",
   "https://bit.ly/a"}

InputTexts ==
  {"", " example.com/ ", "https://bit.ly/a"}

PopupOutcomes ==
  {outcome \in LookupOutcomes : Len(outcome.matches) <= 1}

outsidePopup ==
  <<classifyVars, labelVars, reputationVars, shortenerVars, formVars,
    faultVars, contentVars, seen, settingsVars>>

\* checkCurrentTabReputation up to its await of chrome.tabs.query
OnCheckNow(id) ==
  /\ calls[id].status = "no"
  /\ popup' = [showLoading(popup) EXCEPT !.answer = 0]
  /\ calls' = [calls EXCEPT ![id] =
                 [status |-> "querying", via |-> "tab", url |-> "",
                  tabUrl |-> "", order |-> issued(calls)]]
  /\ UNCHANGED outsidePopup

\* a test of the tab url that knows the chrome:// pages only
isInternalPage_chromeOnly(url) ==
  startsWith(url, "chrome://")

\* the test of checkCurrentTabReputation for a browser-internal page
isInternalPage(url) ==
  \/ startsWith(url, "chrome://")
  \/ startsWith(url, "chrome-extension://")
  \/ startsWith(url, "edge://")
  \/ startsWith(url, "about:")

\* chrome.tabs.query resolves with the active tab: checkCurrentTabReputation
\* from its await to its end
TabQueryReturns(id, tabUrl) ==
  /\ calls[id].status = "querying"
  /\ IF tabUrl = ""
     THEN /\ popup' = [showError(popup, "Unable to get current tab URL")
                         EXCEPT !.answer = 0]
          /\ calls' = [calls EXCEPT ![id].status = "ended",
                                    ![id].tabUrl = tabUrl]
     ELSE IF isInternalPage(tabUrl)
     THEN /\ popup' =
               [showError(popup,
                  "Cannot check reputation for browser internal pages")
                  EXCEPT !.answer = 0]
          /\ calls' = [calls EXCEPT ![id].status = "ended",
                                    ![id].tabUrl = tabUrl]
     ELSE /\ calls' = [calls EXCEPT ![id].status = "sent",
                                    ![id].url = tabUrl,
                                    ![id].tabUrl = tabUrl]
          /\ UNCHANGED popup
  /\ UNCHANGED outsidePopup

\* the click on the Check URL button, and checkCustomUrl up to sendMessage
OnCheckCustomUrlClick(id, text) ==
  /\ calls[id].status = "no"
  /\ LET url == trim(text)
         urlToCheck == IF \/ startsWith(url, "http://")
                          \/ startsWith(url, "https://")
                       THEN url
                       ELSE "https://" \o url
     IN  IF url = ""
         THEN /\ popup' = [showError(popup, "Please enter a URL")
                             EXCEPT !.answer = 0]
              /\ UNCHANGED calls
         ELSE /\ popup' = [showLoading(popup) EXCEPT !.answer = 0]
              /\ calls' = [calls EXCEPT ![id] =
                             [status |-> "sent", via |-> "custom",
                              url |-> urlToCheck, tabUrl |-> "",
                              order |-> issued(calls)]]
  /\ UNCHANGED outsidePopup

\* the message of request id reaches the background
MessageArrives(id) ==
  /\ calls[id].status = "sent"
  /\ OnCheckReputation(id, calls[id].url)

\* the response of the background reaches the callback of sendMessage
OnResponse(id) ==
  /\ calls[id].status = "sent"
  /\ requests[id].phase = "done"
  /\ popup' = [responseCallback(popup, requests[id].response)
                 EXCEPT !.answer = id]
  /\ calls' = [calls EXCEPT ![id].status = "answered"]
  /\ UNCHANGED outsidePopup

\* what chrome.runtime.lastError holds when the callback of sendMessage is
\* called without a response: a message, or nothing
LastErrors ==
  {"null", "The message port closed before a response was received."}

\* the callback of checkCurrentTabReputation called with response undefined:
\* after the lastError test it reads response.success
currentTabCallbackUndefined(p, lastError) ==
  IF lastError # "null"
  THEN Normal(showError(p, "Error: " \o lastError))
  ELSE [threw |-> TRUE, value |-> p]

\* the callback of checkCustomUrl called with response undefined
customUrlCallbackUndefined(p, lastError) ==
  IF lastError # "null"
  THEN Normal(showError(p, "Error: " \o lastError))
  ELSE Normal(showError(p,
         "No response from background service worker. "
           \o "Try reloading the extension."))

\* the callback of sendMessage is called although the background has sent
\* no response
OnNoResponse(id, lastError) ==
  /\ calls[id].status = "sent"
  /\ requests[id].phase # "done"
  /\ LET completion_ ==
           IF calls[id].via = "tab"
           THEN currentTabCallbackUndefined(popup, lastError)
           ELSE customUrlCallbackUndefined(popup, lastError)
     IN  /\ popup' = [completion_.value EXCEPT !.answer = 0]
         /\ calls' = [calls EXCEPT ![id].status =
                         IF completion_.threw THEN "faulted"
                         ELSE "unanswered"]
  /\ UNCHANGED outsidePopup

(***************************************************************************)
(* The features tab of the popup and the stored settings (popup.js)        *)
(***************************************************************************)
\* securityState as content.js declares it
DeclaredState ==
  [youtubeStudyMode |-> FALSE, formAnalysisMode |-> FALSE,
   urlShortenerMode |-> FALSE, youtubeObserver |-> "null"]

NoTimers ==
  [rescan |-> 0, watch |-> 0]

\* the page as the server sent it
UntouchedDom ==
  [studyOverlays |-> 0, videoOpacity |-> "", videoPosition |-> "",
   linkPointerEvents |-> "", reelDisplay |-> "", shortsTitledDisplay |-> "",
   watchOverlays |-> 0, playerOpacity |-> "", playerPosition |-> "",
   banners |-> 0, highlighted |-> {}, submitListeners |-> 0,
   warningAdded |-> FALSE, observers |-> 0]

\* no submit event yet
NoSubmission ==
  [done |-> FALSE, prompts |-> 0, confirmed |-> FALSE, prevented |-> FALSE,
   scannerOn |-> FALSE, foundSuspicious |-> FALSE]

\* the features tab as init leaves it: loadSettings has asked the storage
FeaturesOpened ==
  [open |-> TRUE, loading |-> TRUE, toggles |-> [k \in Keys |-> FALSE],
   statusType |-> "", reopened |-> FALSE]

NeverSaved ==
  [k \in Keys |-> "undefined"]

MaxWrites ==
  2

\* a loadSettings that shows a key that was never stored as on
loadSettingsCallback_undefinedOn(f, items) ==
  [f EXCEPT !.loading = FALSE,
            !.toggles = [k \in Keys |-> items[k] # "false"]]

\* the callback of chrome.storage.sync.get in loadSettings
loadSettingsCallback(f, items) ==
  [f EXCEPT !.loading = FALSE,
            !.toggles = [k \in Keys |-> orFalse(items[k])]]

\* the storage answers the read of loadSettings
OnLoadSettings ==
  /\ features.open
  /\ features.loading
  /\ features' = loadSettingsCallback(features, stored)
  /\ UNCHANGED <<writes, saved, contentVars, classifyVars, labelVars,
                 reputationVars, shortenerVars, formVars, faultVars,
                 popupVars, seen>>

\* the user flips toggle key: its change listener calls saveSetting, which
\* hands the write to chrome.storage.sync.set
OnToggleChange(key) ==
  /\ features.open
  /\ Len(writes) < MaxWrites
  /\ LET isEnabled == ~features.toggles[key]
     IN  /\ features' = [features EXCEPT !.toggles[key] = isEnabled]
         /\ writes' = Append(writes, [key |-> key, value |-> isEnabled])
  /\ UNCHANGED <<saved, contentVars, classifyVars, labelVars,
                 reputationVars, shortenerVars, formVars, faultVars,
                 popupVars, seen>>

\* the oldest write completes: the value is stored, the listener of the
\* content script is called when the value changed, and the callback of
\* saveSetting shows the status in a popup that is still open
SetCompletes ==
  /\ writes # <<>>
  /\ LET write == Head(writes)
         changes == [k \in {write.key} |-> write.value]
     IN  /\ stored' = [stored EXCEPT ![write.key] = storedValue(write.value)]
         /\ saved' = [saved EXCEPT ![write.key] = storedValue(write.value)]
         /\ Leaves(IF stored[write.key] # storedValue(write.value)
                   THEN onStorageChanged(world, changes)
                   ELSE world)
  /\ writes' = Tail(writes)
  /\ features' = IF features.open
                 THEN [features EXCEPT !.statusType = "success"]
                 ELSE features
  /\ UNCHANGED <<phase, page, submitted, classifyVars, labelVars,
                 reputationVars, shortenerVars, formVars, faultVars,
                 popupVars, seen>>

\* the oldest write fails, chrome.runtime.lastError is set in the callback
SetFails ==
  /\ writes # <<>>
  /\ writes' = Tail(writes)
  /\ features' = IF features.open
                 THEN [features EXCEPT !.statusType = "error"]
                 ELSE features
  /\ UNCHANGED <<saved, contentVars, classifyVars, labelVars,
                 reputationVars, shortenerVars, formVars, faultVars,
                 popupVars, seen>>

ClosePopup ==
  /\ features.open
  /\ features' = [features EXCEPT !.open = FALSE]
  /\ UNCHANGED <<writes, saved, contentVars, classifyVars, labelVars,
                 reputationVars, shortenerVars, formVars, faultVars,
                 popupVars, seen>>

\* the popup is opened again: a new document, whose init calls loadSettings
OpenPopup ==
  /\ ~features.open
  /\ features' = [FeaturesOpened EXCEPT !.reopened = TRUE]
  /\ UNCHANGED <<writes, saved, contentVars, classifyVars, labelVars,
                 reputationVars, shortenerVars, formVars, faultVars,
                 popupVars, seen>>

\* the page is loaded again, by chrome.tabs.reload of a toggle listener or
\* by the user: the content script starts anew
PageReloads ==
  /\ securityState' = DeclaredState
  /\ timers' = NoTimers
  /\ dom' = UntouchedDom
  /\ phase' = "loading"
  /\ submitted' = NoSubmission
  /\ UNCHANGED <<stored, page, settingsVars, classifyVars, labelVars,
                 reputationVars, shortenerVars, formVars, faultVars,
                 popupVars, seen>>

(***************************************************************************)
(* The classifiers called again and again while the settings change        *)
(***************************************************************************)
SeenElements ==
  [title : PageTitles, description : {""}, readable : {TRUE}]

SeenScores ==
  {n \in Scores : n = 30 \/ n = 31}

outsideSeen ==
  <<classifyVars, labelVars, reputationVars, shortenerVars, formVars,
    faultVars, contentVars, popupVars, settingsVars>>

\* each call is noted with its input and its result, the keyword
\* classification also with the study mode it was made under
ClassifyElement(element) ==
  /\ seen' = [seen EXCEPT !.keyword = @ \cup
                {[input |-> element,
                  value |-> shouldPlayVideo(element),
                  studyMode |-> securityState.youtubeStudyMode]}]
  /\ UNCHANGED outsideSeen

LabelScore(riskScore) ==
  /\ seen' = [seen EXCEPT !.riskLabel = @ \cup
                {[input |-> riskScore, value |-> getRiskLabel(riskScore)]}]
  /\ UNCHANGED outsideSeen

TestShortener ==
  /\ seen' = [seen EXCEPT !.shortener = @ \cup
                {[input |-> hostname, value |-> detectUrlShortener(hostname)]}]
  /\ UNCHANGED outsideSeen

AnalyzePageForm ==
  /\ seen' = [seen EXCEPT !.form = @ \cup
                {[input |-> form, value |-> analyzeForm(form, hostname)]}]
  /\ UNCHANGED outsideSeen

(***************************************************************************)
(* Specifications, one per component                                       *)
(***************************************************************************)
ClassifyIdle ==
  /\ videoElement = [title |-> "", description |-> "", readable |-> TRUE]
  /\ result = [op |-> None]

LabelIdle ==
  /\ score = 0
  /\ label = None

ReputationIdle ==
  /\ requests = [id \in RequestIds |-> IdleRequest]
  /\ fetches = 0

ShortenerIdle ==
  /\ hostname = "example.com"
  /\ links = <<>>
  /\ shortenerResult = NoShortenerResult
  /\ analyzeResponse = NoAnalyzeResponse

FormIdle ==
  /\ form = [action |-> "", inputs |-> <<>>, readable |-> TRUE]
  /\ formResult = NoFormResult

NoneSeen ==
  [keyword |-> {}, riskLabel |-> {}, shortener |-> {}, form |-> {}]

FaultIdle ==
  /\ textValue = [type |-> "string", text |-> ""]
  /\ completion = NoCompletion

\* securityState as the script declares it, nothing scheduled, the page
\* untouched
ScriptLoaded ==
  /\ securityState = DeclaredState
  /\ timers = NoTimers
  /\ dom = UntouchedDom
  /\ phase = "loading"
  /\ submitted = NoSubmission

NoWatch ==
  [title |-> "", description |-> ""]

PopupIdle ==
  /\ popup = PopupOpened
  /\ calls = [id \in RequestIds |-> NoCall]
  /\ seen = NoneSeen
  /\ features = FeaturesOpened
  /\ writes = <<>>
  /\ saved = NeverSaved

ContentIdle ==
  /\ PopupIdle
  /\ ScriptLoaded
  /\ page = [pathname |-> "/", kind |-> videoSelectors[1],
             hasPlayer |-> FALSE, watch |-> NoWatch]
  /\ stored = [k \in Keys |-> "undefined"]

InitClassify ==
  /\ videoElement \in [title : Titles, description : Descriptions,
                       readable : {TRUE}]
  /\ result = [op |-> None]
  /\ LabelIdle
  /\ ReputationIdle
  /\ ShortenerIdle
  /\ FormIdle
  /\ FaultIdle
  /\ ContentIdle

NextClassify ==
  \/ CallHasStudyKeyword
  \/ CallHasBlockKeyword
  \/ CallShouldPlayVideo
  \/ WatchPageCheck

SpecClassify ==
  InitClassify /\ [][NextClassify]_vars

InitLabel ==
  /\ score \in Scores
  /\ label = None
  /\ ClassifyIdle
  /\ ReputationIdle
  /\ ShortenerIdle
  /\ FormIdle
  /\ FaultIdle
  /\ ContentIdle

NextLabel ==
  CallGetRiskLabel

SpecLabel ==
  InitLabel /\ [][NextLabel]_vars

InitReputation ==
  /\ ReputationIdle
  /\ ClassifyIdle
  /\ LabelIdle
  /\ ShortenerIdle
  /\ FormIdle
  /\ FaultIdle
  /\ ContentIdle

NextReputation ==
  \/ \E id \in RequestIds, url \in Urls : OnCheckReputation(id, url)
  \/ \E id \in RequestIds, outcome \in LookupOutcomes :
       LookupSettles(id, outcome)
  \/ \E id \in RequestIds : LookupHangs(id)

SpecReputation ==
  InitReputation /\ [][NextReputation]_vars

\* the network decides the fate of every lookup in flight, and the event
\* loop runs the continuation of a settled fetch
FairReputation ==
  \A id \in RequestIds :
    WF_vars(\/ \E outcome \in LookupOutcomes : LookupSettles(id, outcome)
            \/ LookupHangs(id))

SpecReputationFair ==
  SpecReputation /\ FairReputation

InitShortener ==
  /\ hostname \in HostNames(MaxLabels)
  /\ links \in LinkLists(MaxLinks)
  /\ shortenerResult = NoShortenerResult
  /\ analyzeResponse = NoAnalyzeResponse
  /\ ClassifyIdle
  /\ LabelIdle
  /\ ReputationIdle
  /\ FormIdle
  /\ FaultIdle
  /\ ContentIdle

NextShortener ==
  \/ CallDetectUrlShortener
  \/ OnAnalyzeShortener

SpecShortener ==
  InitShortener /\ [][NextShortener]_vars

InitForm ==
  /\ hostname \in FormHosts
  /\ form \in [action : FormActions, inputs : InputLists(MaxInputs),
               readable : {TRUE}]
  /\ formResult = NoFormResult
  /\ links = <<>>
  /\ shortenerResult = NoShortenerResult
  /\ analyzeResponse = NoAnalyzeResponse
  /\ ClassifyIdle
  /\ LabelIdle
  /\ ReputationIdle
  /\ FaultIdle
  /\ ContentIdle

NextForm ==
  \/ CallGetDomain
  \/ CallIsSensitiveInput
  \/ CallAnalyzeForm

SpecForm ==
  InitForm /\ [][NextForm]_vars

\* forms and links together, for what malformed urls do to either
InitMalformed ==
  /\ hostname \in FormHosts
  /\ form \in [action : FormActions, inputs : {<<>>, <<PasswordInput>>},
               readable : {TRUE}]
  /\ formResult = NoFormResult
  /\ links \in LinkLists(MaxLinks)
  /\ shortenerResult = NoShortenerResult
  /\ analyzeResponse = NoAnalyzeResponse
  /\ ClassifyIdle
  /\ LabelIdle
  /\ ReputationIdle
  /\ FaultIdle
  /\ ContentIdle

NextMalformed ==
  \/ CallGetDomain
  \/ CallAnalyzeForm
  \/ OnAnalyzeShortener

SpecMalformed ==
  InitMalformed /\ [][NextMalformed]_vars

\* every classifier on inputs that make its body fail
InitFaults ==
  /\ textValue \in JsValues
  /\ videoElement \in [title : FaultTexts, description : {""},
                       readable : BOOLEAN]
  /\ result = [op |-> None]
  /\ hostname \in {"bank.com", "bit.ly"}
  /\ form \in [action : {"/submit", "https://evil.com/submit"},
               inputs : FaultInputLists, readable : BOOLEAN]
  /\ formResult = NoFormResult
  /\ links = <<>>
  /\ shortenerResult = NoShortenerResult
  /\ analyzeResponse = NoAnalyzeResponse
  /\ completion = NoCompletion
  /\ LabelIdle
  /\ ReputationIdle
  /\ ContentIdle

NextFaults ==
  \/ CallHasStudyKeywordValue
  \/ CallHasBlockKeywordValue
  \/ CallShouldPlayVideoElement
  \/ CallIsSensitiveInputElement
  \/ CallAnalyzeFormElement
  \/ CallDetectUrlShortenerPage

SpecFaults ==
  InitFaults /\ [][NextFaults]_vars

\* the content script on a YouTube page, a shortener page and a page with
\* a form, with any settings stored
\* the compact renderer is the one of the list beside the player of a watch
\* page, the other three are those of the home, channel and search pages
InitYouTubePage ==
  /\ hostname = "www.youtube.com"
  /\ videoElement \in [title : PageTitles, description : {""},
                       readable : {TRUE}]
  /\ form = BenignForm
  /\ \/ \E i \in 1..3 :
          page = [pathname |-> "/", kind |-> videoSelectors[i],
                  hasPlayer |-> FALSE, watch |-> NoWatch]
     \/ \E title \in PageTitles :
          page = [pathname |-> "/watch", kind |-> videoSelectors[4],
                  hasPlayer |-> TRUE,
                  watch |-> [title |-> title, description |-> ""]]

InitOtherPage ==
  /\ hostname \in {"bit.ly", "bank.com"}
  /\ videoElement = [title |-> "", description |-> "", readable |-> TRUE]
  /\ form \in {SuspiciousForm, BenignForm}
  /\ page = [pathname |-> "/", kind |-> videoSelectors[1],
             hasPlayer |-> FALSE, watch |-> NoWatch]

InitContent ==
  /\ InitYouTubePage \/ InitOtherPage
  /\ stored \in [Keys -> {"undefined", "true", "false"}]
  /\ ScriptLoaded
  /\ result = [op |-> None]
  /\ formResult = NoFormResult
  /\ links = <<>>
  /\ shortenerResult = NoShortenerResult
  /\ analyzeResponse = NoAnalyzeResponse
  /\ LabelIdle
  /\ ReputationIdle
  /\ FaultIdle
  /\ PopupIdle

NextContent ==
  \/ OnStorageGet
  \/ \E changes \in ChangeEvents : OnStorageChanged(changes)
  \/ ObserverCallback
  \/ RescanTimerFires
  \/ WatchTimerFires
  \/ \E title \in PageTitles : VideoChanges(title)

SpecContent ==
  InitContent /\ [][NextContent]_vars

\* the content script on a page that is not YouTube: shortener hosts, other
\* hosts, a form posting to another domain or to its own
PageHosts ==
  {"bit.ly", "www.bit.ly", "bit.www.ly", "bank.com"}

InitPage ==
  /\ hostname \in PageHosts
  /\ videoElement = [title |-> "", description |-> "", readable |-> TRUE]
  /\ form \in {SuspiciousForm, BenignForm}
  /\ page = [pathname |-> "/", kind |-> videoSelectors[1],
             hasPlayer |-> FALSE, watch |-> NoWatch]
  /\ stored \in [Keys -> {"undefined", "true", "false"}]
  /\ ScriptLoaded
  /\ result = [op |-> None]
  /\ formResult = NoFormResult
  /\ links = <<>>
  /\ shortenerResult = NoShortenerResult
  /\ analyzeResponse = NoAnalyzeResponse
  /\ LabelIdle
  /\ ReputationIdle
  /\ FaultIdle
  /\ PopupIdle

NextPage ==
  \/ OnStorageGet
  \/ \E changes \in ChangeEvents : OnStorageChanged(changes)
  \/ OnDismissClick
  \/ \E confirmed \in BOOLEAN : OnSubmit(confirmed)

SpecPage ==
  InitPage /\ [][NextPage]_vars

\* the features tab, the storage and the content script of one page, from
\* a fresh installation
InitSettings ==
  /\ hostname = "bank.com"
  /\ videoElement = [title |-> "", description |-> "", readable |-> TRUE]
  /\ form = BenignForm
  /\ page = [pathname |-> "/", kind |-> videoSelectors[1],
             hasPlayer |-> FALSE, watch |-> NoWatch]
  /\ stored = NeverSaved
  /\ ScriptLoaded
  /\ result = [op |-> None]
  /\ formResult = NoFormResult
  /\ links = <<>>
  /\ shortenerResult = NoShortenerResult
  /\ analyzeResponse = NoAnalyzeResponse
  /\ LabelIdle
  /\ ReputationIdle
  /\ FaultIdle
  /\ PopupIdle

NextSettings ==
  \/ OnLoadSettings
  \/ \E key \in Keys : OnToggleChange(key)
  \/ SetCompletes
  \/ SetFails
  \/ ClosePopup
  \/ OpenPopup
  \/ PageReloads
  \/ OnStorageGet

SpecSettings ==
  InitSettings /\ [][NextSettings]_vars

\* the popup checking urls through the background
InitPopup ==
  /\ ReputationIdle
  /\ ClassifyIdle
  /\ LabelIdle
  /\ ShortenerIdle
  /\ FormIdle
  /\ FaultIdle
  /\ ContentIdle

NextPopup ==
  \/ \E id \in PopupRequests : OnCheckNow(id)
  \/ \E id \in PopupRequests, tabUrl \in TabUrls :
       TabQueryReturns(id, tabUrl)
  \/ \E id \in PopupRequests, text \in InputTexts :
       OnCheckCustomUrlClick(id, text)
  \/ \E id \in PopupRequests : MessageArrives(id)
  \/ \E id \in PopupRequests, outcome \in PopupOutcomes :
       LookupSettles(id, outcome)
  \/ \E id \in PopupRequests : LookupHangs(id)
  \/ \E id \in PopupRequests : OnResponse(id)
  \/ \E id \in PopupRequests, lastError \in LastErrors :
       OnNoResponse(id, lastError)

SpecPopup ==
  InitPopup /\ [][NextPopup]_vars

\* the classifiers called on a shortener page with a form, between the
\* settings events
InitDeterminism ==
  /\ hostname = "bit.ly"
  /\ form = SuspiciousForm
  /\ formResult = NoFormResult
  /\ links = <<>>
  /\ shortenerResult = NoShortenerResult
  /\ analyzeResponse = NoAnalyzeResponse
  /\ ClassifyIdle
  /\ LabelIdle
  /\ ReputationIdle
  /\ FaultIdle
  /\ ContentIdle

NextDeterminism ==
  \/ \E element \in SeenElements : ClassifyElement(element)
  \/ \E riskScore \in SeenScores : LabelScore(riskScore)
  \/ TestShortener
  \/ AnalyzePageForm
  \/ OnStorageGet
  \/ \E changes \in ChangeEvents : OnStorageChanged(changes)

SpecDeterminism ==
  InitDeterminism /\ [][NextDeterminism]_vars

(***************************************************************************)
(* Properties                                                              *)
(***************************************************************************)
\* the two keyword sets, every keyword in lowercase
BlockSet ==
  {toLowerCase(BLOCK_KEYWORDS[i]) : i \in 1..Len(BLOCK_KEYWORDS)}

AllowSet ==
  {toLowerCase(STUDY_KEYWORDS[i]) : i \in 1..Len(STUDY_KEYWORDS)}

\* some keyword of the lowercase set K occurs in text t, letter case ignored
KeywordMatch(K, t) ==
  LET lowered == toLowerCase(t)
  IN  \E keyword \in K :
        \E p \in 1..(Len(lowered) - Len(keyword) + 1) :
          SubSeq(lowered, p, p + Len(keyword) - 1) = keyword

BlockMatches ==
  \/ KeywordMatch(BlockSet, videoElement.title)
  \/ KeywordMatch(BlockSet, videoElement.description)

AllowMatches ==
  \/ KeywordMatch(AllowSet, videoElement.title)
  \/ KeywordMatch(AllowSet, videoElement.description)

\* the last call decided the item: shouldPlayVideo or the watch-page check
Classified ==
  result.op \in {"shouldPlayVideo", "watchPage"}

\* t is empty or holds whitespace only
IsBlank(t) ==
  \A i \in 1..Len(t) : SubSeq(t, i, i) \in WhiteSpace

\* C1: block precedence. Whenever a BLOCK keyword matches the title or the
\* description of the item, shouldPlayVideo and the watch-page decision are
\* Block (FALSE), also when ALLOW keywords match as well.
C1_BlockPrecedence ==
  (Classified /\ BlockMatches) => result.value = FALSE

\* shouldPlayVideo blocked an item that matches a BLOCK and an ALLOW keyword
C1_Witness ==
  /\ result.op = "shouldPlayVideo"
  /\ BlockMatches
  /\ AllowMatches
  /\ result.value = FALSE

\* C2: default-deny. An item whose title and description match no keyword
\* of either list is classified Block.
C2_DefaultDeny ==
  (Classified /\ ~BlockMatches /\ ~AllowMatches) => result.value = FALSE

\* shouldPlayVideo blocked an item with a non-blank title and no match
C2_Witness ==
  /\ result.op = "shouldPlayVideo"
  /\ ~IsBlank(videoElement.title)
  /\ ~BlockMatches
  /\ ~AllowMatches
  /\ result.value = FALSE

\* C3: an item that matches no BLOCK keyword and at least one ALLOW keyword,
\* in the title or in the description, is classified Allow (TRUE).
C3_AllowOnStudyKeyword ==
  (Classified /\ ~BlockMatches /\ AllowMatches) => result.value = TRUE

\* shouldPlayVideo allowed an item whose title alone carries the keyword
C3_Witness ==
  /\ result.op = "shouldPlayVideo"
  /\ ~BlockMatches
  /\ KeywordMatch(AllowSet, videoElement.title)
  /\ ~KeywordMatch(AllowSet, videoElement.description)
  /\ result.value = TRUE

\* C4: an empty or whitespace-only text matches no keyword of either list
\* (hasStudyKeyword and hasBlockKeyword return false), and an item whose
\* title and description are both blank is classified Block.
C4_BlankTextNoMatch ==
  /\ (result.op \in {"hasStudyKeyword", "hasBlockKeyword"}
        /\ IsBlank(result.text)) => result.value = FALSE
  /\ (Classified /\ IsBlank(videoElement.title)
        /\ IsBlank(videoElement.description)) => result.value = FALSE

\* hasStudyKeyword was called with a whitespace-only text
C4_Witness ==
  /\ result.op = "hasStudyKeyword"
  /\ result.text # ""
  /\ IsBlank(result.text)
  /\ result.value = FALSE

\* C5: the membership test is case-insensitive substring containment:
\* hasBlockKeyword(t) and hasStudyKeyword(t) are true exactly when the
\* lowercased t contains the lowercased form of some keyword of the list,
\* also for the keywords stored with capitals and for texts in any case.
C5_CaseInsensitiveContainment ==
  /\ result.op = "hasBlockKeyword"
       => result.value = KeywordMatch(BlockSet, result.text)
  /\ result.op = "hasStudyKeyword"
       => result.value = KeywordMatch(AllowSet, result.text)

\* hasBlockKeyword matched a mixed-case text on the keyword stored as 'Mix'
C5_Witness ==
  /\ result.op = "hasBlockKeyword"
  /\ result.text = "Mix"
  /\ result.value = TRUE

\* the external verdict of a settled lookup
ThreatFound(outcome) ==
  outcome.kind = "object" /\ outcome.hasMatches /\ outcome.matches # <<>>

NoThreat(outcome) ==
  outcome.kind = "object" /\ ~(outcome.hasMatches /\ outcome.matches # <<>>)

LookupFailed(outcome) ==
  outcome.kind \in {"rejected", "malformed", "null"}

\* C6: a completed lookup that reports a threat match is answered with score
\* 40 and label Suspicious, whatever the threat kind; one that reports no
\* match is answered with score 0 and label Safe.
C6_CompletedLookupAssessment ==
  \A id \in RequestIds :
    requests[id].phase = "done" =>
      LET outcome == requests[id].outcome
          data == requests[id].response.data
      IN  /\ ThreatFound(outcome) =>
               data.riskScore = 40 /\ data.riskLabel = "Suspicious"
          /\ NoThreat(outcome) =>
               data.riskScore = 0 /\ data.riskLabel = "Safe"

\* two requests answered, one with a threat match and one with an empty
\* matches array
C6_Witness ==
  \E i, j \in RequestIds :
    /\ requests[i].phase = "done"
    /\ ThreatFound(requests[i].outcome)
    /\ requests[i].response.data.riskScore = 40
    /\ requests[j].phase = "done"
    /\ requests[j].outcome.kind = "object"
    /\ requests[j].outcome.hasMatches
    /\ requests[j].outcome.matches = <<>>
    /\ requests[j].response.data.riskLabel = "Safe"

\* C7: a failed lookup (network error, malformed response) is answered with
\* score 0 and label Unknown, never Safe, and carries the failure message.
C7_FailedLookupUnknown ==
  \A id \in RequestIds :
    (requests[id].phase = "done" /\ LookupFailed(requests[id].outcome)) =>
      LET data == requests[id].response.data
      IN  /\ data.riskScore = 0
          /\ data.riskLabel = "Unknown"
          /\ data.riskLabel # "Safe"
          /\ data.error = requests[id].outcome.message

\* C8: getRiskLabel gives every integer score exactly one label: Safe for
\* 0..30, Suspicious for 31..60, High Risk for 61..100, Unknown below 0 and
\* above 100.
C8_ScoreLabelPartition ==
  label # None =>
    /\ label \in {"Safe", "Suspicious", "High Risk", "Unknown"}
    /\ label = "Safe" <=> score \in 0..30
    /\ label = "Suspicious" <=> score \in 31..60
    /\ label = "High Risk" <=> score \in 61..100
    /\ label = "Unknown" <=> (score < 0 \/ score > 100)

\* the upper end of the Suspicious range has been labelled
C8_Witness ==
  score = 60 /\ label = "Suspicious"

\* h without a "www." that stands at its very start
StripLeadingWww(h) ==
  IF Len(h) >= 4 /\ SubSeq(h, 1, 4) = "www."
  THEN SubSeq(h, 5, Len(h))
  ELSE h

ShortenerSet ==
  {URL_SHORTENERS[i] : i \in 1..Len(URL_SHORTENERS)}

\* C9: the shortener test is true exactly when the hostname, with a "www."
\* removed only from its very start, equals a member of URL_SHORTENERS.
C9_ShortenerExactMatch ==
  shortenerResult.domain # None =>
    shortenerResult.isShortener
      = (StripLeadingWww(hostname) \in ShortenerSet)

\* the links of the page whose hostname, leading "www." stripped, is a
\* shortener, in page order
RECURSIVE ShortenedHrefs(_)
ShortenedHrefs(hrefs) ==
  IF hrefs = <<>> THEN <<>>
  ELSE LET rest == ShortenedHrefs(Tail(hrefs))
           parsed == urlHostname(Head(hrefs))
       IN  IF parsed.ok /\ StripLeadingWww(parsed.hostname) \in ShortenerSet
           THEN <<Head(hrefs)>> \o rest
           ELSE rest

\* C10: the link scan returns one entry for every link whose normalized
\* hostname is a shortener and none for any other link, in page order,
\* duplicates kept.
C10_LinkScanExact ==
  analyzeResponse.success =>
    [i \in 1..Len(analyzeResponse.linksFound)
       |-> analyzeResponse.linksFound[i].url] = ShortenedHrefs(links)

\* text t holds keyword k (lowercase) somewhere, letter case ignored
HoldsKeyword(t, k) ==
  \E p \in 1..(Len(t) - Len(k) + 1) :
    toLowerCase(SubSeq(t, p, p + Len(k) - 1)) = k

\* the documented sensitivity rule for a field
IsSensitiveField(input) ==
  \/ toLowerCase(input.type) \in {"password", "email"}
  \/ \E k \in {"card", "credit", "debit", "cvv", "cvc", "expiry"} :
       HoldsKeyword(input.name, k) \/ HoldsKeyword(input.id, k)

SensitiveFieldCount ==
  Cardinality({i \in 1..Len(form.inputs) : IsSensitiveField(form.inputs[i])})

\* the places of url at which a "://" starts
SeparatorPlaces(url) ==
  {p \in 1..(Len(url) - 2) : SubSeq(url, p, p + 2) = "://"}

\* empty, "#", starting with "/", or without a scheme separator
IsRelativeAction(url) ==
  \/ url = ""
  \/ url = "#"
  \/ SubSeq(url, 1, 1) = "/"
  \/ SeparatorPlaces(url) = {}

\* the host an absolute url names: what stands between the first "://" and
\* the next "/" or ":", in lowercase
NamedHost(url) ==
  LET first == CHOOSE p \in SeparatorPlaces(url) :
                 \A q \in SeparatorPlaces(url) : p <= q
      after == SubSeq(url, first + 3, Len(url))
      stops == {p \in 1..Len(after) : SubSeq(after, p, p) \in {"/", ":"}}
      last == IF stops = {} THEN Len(after)
              ELSE (CHOOSE p \in stops : \A q \in stops : p <= q) - 1
  IN  toLowerCase(SubSeq(after, 1, last))

\* the domain a form on a page of host submits to: the host an absolute
\* action names, the page's own host for every other action
TargetDomain(url, host) ==
  IF IsRelativeAction(url) THEN host
  ELSE IF NamedHost(url) = "" THEN host
  ELSE NamedHost(url)

\* C11: analyzeForm reports a form suspicious exactly when it has at least
\* one sensitive field and its target domain differs from the page's domain;
\* a same-domain form with sensitive fields and a cross-domain form without
\* sensitive fields are not flagged.
C11_SuspicionRule ==
  formResult.op = "analyzeForm" =>
    formResult.value.isSuspicious
      = (SensitiveFieldCount > 0
           /\ TargetDomain(form.action, hostname) # hostname)

\* a cross-domain form with a sensitive field has been flagged
C11_Witness ==
  /\ formResult.op = "analyzeForm"
  /\ SensitiveFieldCount > 0
  /\ TargetDomain(form.action, hostname) # hostname
  /\ formResult.value.isSuspicious

\* C12: for an action that is empty, "#" or relative, getDomain returns the
\* page's hostname, so the form is never reported suspicious, whatever its
\* fields.
C12_RelativeActionSameDomain ==
  IsRelativeAction(form.action) =>
    /\ formResult.op = "getDomain" => formResult.value = hostname
    /\ formResult.op = "analyzeForm" => ~formResult.value.isSuspicious

\* a form with a sensitive field and a relative action was analysed
C12_Witness ==
  /\ formResult.op = "analyzeForm"
  /\ form.action = "/submit"
  /\ SensitiveFieldCount > 0
  /\ ~formResult.value.isSuspicious

\* C13: an input is sensitive exactly when its type is password or email, in
\* any letter case, or its name or id contains one of card, credit, debit,
\* cvv, cvc, expiry, letter case ignored.
C13_FieldSensitivity ==
  formResult.op = "isSensitiveInput" =>
    formResult.value = IsSensitiveField(formResult.input)

\* a text input was found sensitive through its id alone
C13_Witness ==
  /\ formResult.op = "isSensitiveInput"
  /\ formResult.input.type = "text"
  /\ formResult.input.name = ""
  /\ formResult.input.id = "cvv"
  /\ formResult.value = TRUE

\* the constructor new URL(url) throws
Unparseable(url) ==
  ~urlHostname(url).ok

\* how often x stands in sequence q
Occurrences(q, x) ==
  Cardinality({i \in 1..Len(q) : q[i] = x})

FoundUrls ==
  [i \in 1..Len(analyzeResponse.linksFound)
     |-> analyzeResponse.linksFound[i].url]

\* C14: malformed input falls back to the safe default. An action that
\* cannot be parsed resolves to the page's domain and the form is not
\* suspicious; a link that cannot be parsed gets no entry and the scan goes
\* on: every link after it whose hostname is a shortener has its entry.
C14_MalformedFallsBack ==
  /\ (~IsRelativeAction(form.action) /\ Unparseable(form.action)) =>
       /\ formResult.op = "getDomain" => formResult.value = hostname
       /\ formResult.op = "analyzeForm" =>
            /\ formResult.value.formDomain = hostname
            /\ ~formResult.value.isSuspicious
  /\ analyzeResponse.success =>
       \A i \in 1..Len(links) :
         /\ Unparseable(links[i]) => Occurrences(FoundUrls, links[i]) = 0
         /\ (~Unparseable(links[i])
               /\ urlHostname(links[i]).hostname \in ShortenerSet) =>
              Occurrences(FoundUrls, links[i]) = Occurrences(links, links[i])

\* a form with a password field and an unparseable action was analysed, and
\* a page with an unparseable link before a shortened one was scanned
C14_Witness ==
  /\ formResult.op = "analyzeForm"
  /\ form.action = "http://"
  /\ SensitiveFieldCount > 0
  /\ ~formResult.value.isSuspicious
  /\ analyzeResponse.success
  /\ links = <<"http://", "https://bit.ly/a">>
  /\ FoundUrls = <<"https://bit.ly/a">>

\* C15: no classifier lets an internal error escape: every call returns, and
\* on an input that makes its body fail it returns its defined outcome: no
\* match, Block, not sensitive, not suspicious with no sensitive fields
C15_NoErrorEscapes ==
  completion.op # None =>
    /\ ~completion.threw
    /\ completion.hostile =>
         /\ completion.value = FALSE
         /\ completion.sensitive = 0

C15_Witness ==
  /\ completion.op = "isSensitiveInput"
  /\ completion.hostile
  /\ ~completion.threw
  /\ completion.value = FALSE

Started ==
  {id \in RequestIds : requests[id].phase # "idle"}

\* C17: every checkReputation request issues its own lookup: as many lookups
\* are issued as requests were received, also for one url, and each answer
\* is made from the request's own url and the end of its own lookup.
C17_OneLookupPerRequest ==
  /\ fetches = Cardinality(Started)
  /\ \A id \in RequestIds :
       requests[id].phase = "done" =>
         LET data == requests[id].response.data
             outcome == requests[id].outcome
         IN  /\ data.url = requests[id].url
             /\ ThreatFound(outcome) => data.status = "Malicious"
             /\ NoThreat(outcome) => data.status = "Safe"
             /\ LookupFailed(outcome) => data.status = "Error"

\* two requests for one url, both answered, one lookup failed and one not
C17_Witness ==
  \E i, j \in RequestIds :
    /\ i # j
    /\ requests[i].phase = "done"
    /\ requests[j].phase = "done"
    /\ requests[i].url = requests[j].url
    /\ LookupFailed(requests[i].outcome)
    /\ NoThreat(requests[j].outcome)
    /\ requests[i].response.data.status = "Error"
    /\ requests[j].response.data.status = "Safe"
    /\ fetches = 2

\* C18: every checkReputation request is eventually answered, with a failed
\* lookup outcome when the lookup fails or does not complete.
C18_EveryRequestAnswered ==
  \A id \in RequestIds :
    (requests[id].phase # "idle") ~> (requests[id].phase = "done")

\* the toggles of securityState by key
Toggles(state) ==
  [k \in Keys |-> CASE k = "youtubeStudyMode" -> state.youtubeStudyMode
                    [] k = "formAnalysisMode" -> state.formAnalysisMode
                    [] k = "urlShortenerMode" -> state.urlShortenerMode]

\* the step is not the delivery of event changes, or it has set the toggles
\* changes names and left the others
EventSetsNamedToggles ==
  \A changes \in ChangeEvents :
    \/ \A k \in Keys :
         Toggles(securityState')[k] =
           IF k \in DOMAIN changes THEN changes[k]
           ELSE Toggles(securityState)[k]
    \/ ~OnStorageChanged(changes)

LastEventWins ==
  phase = "ready" =>
    \A k \in Keys : Toggles(securityState)[k] = orFalse(stored[k])

\* C20: a settings update event that names key k with new value v sets the
\* toggle k to v and leaves the other toggles as they were; so after any
\* events every toggle has the value of the last event that named it, which
\* is the value the storage holds.
C20_EventSetsNamedToggles ==
  [][EventSetsNamedToggles /\ LastEventWins']_vars

\* an event has switched study mode on and left form analysis, read as on
\* from the storage, alone
C20_Witness ==
  /\ phase = "ready"
  /\ securityState.youtubeStudyMode
  /\ securityState.formAnalysisMode
  /\ ~securityState.urlShortenerMode
  /\ stored["youtubeStudyMode"] = "true"
  /\ stored["urlShortenerMode"] = "false"
  /\ dom.observers = 1

\* the texts the reputation tab shows
DisplayedTexts ==
  (IF ~popup.errorHidden THEN {popup.errorMessage} ELSE {})
    \cup (IF ~popup.resultsHidden
          THEN {popup.urlDisplay, popup.statusBadge, popup.threatDisplay,
                popup.riskBarText, popup.riskScoreText, popup.finalLabel}
          ELSE {})

\* C19: when the lookup of the response on display has failed, the popup
\* shows the failure message of the lookup, and what it shows differs from
\* the display of a confirmed-safe result.
C19_FailureDisplayed ==
  \A id \in PopupRequests :
    (popup.answer = id /\ LookupFailed(requests[id].outcome)) =>
      /\ \E text \in DisplayedTexts :
           includes(text, requests[id].outcome.message)
      /\ ~(~popup.resultsHidden /\ popup.statusBadge = "Safe")

SameInputSameResult(noted) ==
  \A a, b \in noted : a.input = b.input => a.value = b.value

C21_BannerOnShortenersOnly ==
  [][/\ (/\ securityState'.urlShortenerMode
         /\ phase # phase' \/ ~securityState.urlShortenerMode
         /\ StripLeadingWww(hostname) \in ShortenerSet)
        => dom'.banners > 0
     /\ StripLeadingWww(hostname) \notin ShortenerSet
        => dom'.banners = 0]_vars

\* C22: when the form was found suspicious by a scan made while the form
\* scanner was on, every submit event after it prompts the user once, and
\* the submission is prevented whenever the user does not confirm.
C22_SuspiciousSubmitAsks ==
  (submitted.done /\ submitted.foundSuspicious) =>
    /\ submitted.prompts = 1
    /\ ~submitted.confirmed => submitted.prevented

\* a suspicious form is submitted after the scanner was switched off again,
\* the user declines, and the submission is prevented
C22_Witness ==
  /\ submitted.done
  /\ submitted.foundSuspicious
  /\ ~submitted.scannerOn
  /\ ~submitted.confirmed
  /\ submitted.prevented

\* C30: once form analysis is off, switched off by a settings event, a
\* submit event of the page's form brings no confirmation prompt, also when
\* the form was found suspicious while the scanner was on.
C30_NoPromptWhenOff ==
  (submitted.done /\ ~submitted.scannerOn) => submitted.prompts = 0

\* the tab urls of the browser's own pages, and a tab without url
InternalTab(url) ==
  \/ url = ""
  \/ \E prefix \in {"chrome://", "chrome-extension://", "edge://", "about:"} :
       /\ Len(url) >= Len(prefix)
       /\ SubSeq(url, 1, Len(prefix)) = prefix

ErrorState(p) ==
  ~p.errorHidden /\ p.loadingHidden /\ p.resultsHidden

\* C23: when chrome.tabs.query gives checkCurrentTabReputation a tab whose
\* url starts with chrome://, chrome-extension://, edge:// or about:, or a
\* tab without url, the popup is left in the error state, and no
\* checkReputation message is ever sent for that request.
C23_NoLookupForInternalPages ==
  [][\A id \in PopupRequests :
       (calls'[id].via = "tab" /\ calls'[id].status # "querying"
          /\ InternalTab(calls'[id].tabUrl))
       => /\ calls'[id].status = "ended"
          /\ requests'[id] = IdleRequest
          /\ calls[id].status = "querying" => ErrorState(popup')]_vars

\* checks of an about: page and of a tab without url have both ended, the
\* error on show
C23_Witness ==
  /\ ErrorState(popup)
  /\ \E id \in PopupRequests :
       calls[id].status = "ended" /\ calls[id].tabUrl = "about:blank"
  /\ \E id \in PopupRequests :
       calls[id].status = "ended" /\ calls[id].via = "tab"
         /\ calls[id].tabUrl = ""

\* the value a key has for the user: on when its last completed save was
\* on, off when that was off or when the key was never saved
LastSaved(key) ==
  saved[key] = "true"

\* C24: when loadSettings fills the toggles, also in a popup that was
\* closed and opened again, each toggle shows the value of the last
\* completed saveSetting for its key, and off when the key was never
\* saved; init of the content script reads its three modes the same way.
C24_SettingsPersist ==
  [][/\ (features.loading /\ ~features'.loading)
        => \A key \in Keys : features'.toggles[key] = LastSaved(key)
     /\ (phase = "loading" /\ phase' = "ready")
        => \A key \in Keys : securityState'[key] = LastSaved(key)]_vars

\* a reopened popup has loaded one toggle on, one off after a save of off,
\* and one never saved, and the content script has read the same
C24_Witness ==
  /\ features.reopened
  /\ ~features.loading
  /\ writes = <<>>
  /\ saved["youtubeStudyMode"] = "true"
  /\ saved["formAnalysisMode"] = "false"
  /\ saved["urlShortenerMode"] = "undefined"
  /\ features.toggles = [k \in Keys |-> k = "youtubeStudyMode"]
  /\ phase = "ready"
  /\ securityState.youtubeStudyMode
  /\ ~securityState.urlShortenerMode

\* a step in which blockNonStudyVideos runs with study mode on: a re-scan
\* timeout, init reading the mode as on, or an event switching it on
ScanRan ==
  \/ timers'.rescan < timers.rescan /\ securityState.youtubeStudyMode
  \/ /\ securityState'.youtubeStudyMode
     /\ phase # phase' \/ ~securityState.youtubeStudyMode

\* C25: on YouTube with study mode on, after blockNonStudyVideos has run,
\* a video element of one of the four scanned renderer types has an
\* overlay and disabled links exactly when its title and description
\* classify as Block, and neither when they classify as Allow, whatever an
\* earlier run did to the element.
C25_OverlayIffBlock ==
  [][(isYouTube /\ ScanRan) =>
       IF shouldPlayVideo(videoElement')
       THEN dom'.studyOverlays = 0 /\ dom'.linkPointerEvents = ""
       ELSE dom'.studyOverlays = 1 /\ dom'.linkPointerEvents = "none"]_vars

\* a video blocked by an earlier run has changed to a study video, the
\* re-scan has run, and the overlay is gone
C25_Witness ==
  /\ isYouTube
  /\ securityState.youtubeStudyMode
  /\ shouldPlayVideo(videoElement)
  /\ dom.videoOpacity = "1"
  /\ dom.videoPosition = "relative"
  /\ dom.studyOverlays = 0
  /\ dom.linkPointerEvents = ""

\* C28: on a YouTube page with study mode off, also after an event
\* switched it off, no study overlay and no watch overlay is on the page,
\* and the video element of any of the four renderer types has its opacity
\* reset and its links clickable.
C28_FullyRestored ==
  (isYouTube /\ ~securityState.youtubeStudyMode) =>
    /\ dom.studyOverlays = 0
    /\ dom.watchOverlays = 0
    /\ dom.videoOpacity \in {"", "1"}
    /\ dom.linkPointerEvents = ""

\* C29: while youtubeStudyMode is false, no step of the content script, a
\* timer or an observer callback included, adds an overlay, dims the video
\* element or the player, or disables links.
C29_NothingWhileOff ==
  [][(~securityState.youtubeStudyMode /\ ~securityState'.youtubeStudyMode)
       => /\ dom'.studyOverlays <= dom.studyOverlays
          /\ dom'.watchOverlays <= dom.watchOverlays
          /\ dom'.videoOpacity \in {dom.videoOpacity, "", "1"}
          /\ dom'.playerOpacity \in {dom.playerOpacity, "", "1"}
          /\ dom'.linkPointerEvents \in {dom.linkPointerEvents, ""}]_vars

\* the documented keywords that are entries of STUDY_KEYWORDS
DocumentedStudyKeywords ==
  {k \in DocumentedKeywords :
     \E i \in 1..Len(STUDY_KEYWORDS) : STUDY_KEYWORDS[i] = k}

\* C26: an element whose title is exactly a keyword that the documentation
\* lists as educational and that STUDY_KEYWORDS holds, and whose description
\* is empty, is classified Allow.
C26_DocumentedKeywordsAllowed ==
  (/\ result.op = "shouldPlayVideo"
   /\ videoElement.title \in DocumentedStudyKeywords
   /\ videoElement.description = "")
  => result.value

\* every request the popup has begun has come to its end
AllSettled ==
  \A id \in PopupRequests : calls[id].status \in {"answered", "ended"}

\* C27: once the two reputation checks of the popup have both come to
\* their end, whatever the order of the responses, a response on display is
\* the one of the request issued last; the response of the older request
\* is not on display.
C27_NewestRequestDisplayed ==
  (AllSettled /\ popup.answer # 0) =>
    \A id \in PopupRequests : calls[id].order <= calls[popup.answer].order

\* C31: whenever form analysis is off, which after init it is only once
\* scanFormsOnPage has run with the mode off, no input of the page carries
\* the security highlight, whatever the scans before it highlighted.
C31_NoHighlightWhenOff ==
  ~securityState.formAnalysisMode => dom.highlighted = {}

\* a scan found the form suspicious and highlighted its password input,
\* then an event switched the scanner off and the highlight is gone
C31_Witness ==
  /\ phase = "ready"
  /\ dom.warningAdded
  /\ sensitiveIndices # {}
  /\ ~securityState.formAnalysisMode
  /\ dom.highlighted = {}

\* C32: the form holds at most one submit listener, and one submit event
\* brings at most one confirmation prompt, after any scans and any
\* form-analysis events.
C32_OnePromptPerSubmit ==
  /\ dom.submitListeners <= 1
  /\ submitted.done => submitted.prompts <= 1

\* the suspicious form was scanned, submitted with the scanner off (one
\* prompt), and scanned again by the event switching the scanner on: still
\* one listener
C32_Witness ==
  /\ submitted.done
  /\ submitted.foundSuspicious
  /\ ~submitted.scannerOn
  /\ submitted.prompts = 1
  /\ securityState.formAnalysisMode
  /\ dom.highlighted # {}
  /\ dom.submitListeners = 1

\* C33: after any scans, observer callbacks, timeouts and settings events
\* the video element holds at most one study overlay, the player at most
\* one watch overlay, and the page at most one shortener banner.
C33_NoDuplicates ==
  /\ dom.studyOverlays <= 1
  /\ dom.watchOverlays <= 1
  /\ dom.banners <= 1

\* on a watch page every timeout of the scans has fired, and the video
\* element and the player hold one overlay each
C33_Witness ==
  /\ securityState.youtubeStudyMode
  /\ phase = "ready"
  /\ timers.rescan = 0
  /\ timers.watch = 0
  /\ dom.studyOverlays = 1
  /\ dom.watchOverlays = 1

\* C34: a shortener banner is on the page only while urlShortenerMode is
\* true: the event switching the alert off removes it and nothing puts it
\* back while the alert stays off.
C34_BannerOnlyWhileOn ==
  dom.banners > 0 => securityState.urlShortenerMode

\* on a shortener page, after init, an event has switched the alert off:
\* no banner is on the page
C34_Witness ==
  /\ detectUrlShortener(hostname).isShortener
  /\ phase = "ready"
  /\ stored["urlShortenerMode"] = "false"
  /\ ~securityState.urlShortenerMode
  /\ dom.banners = 0

\* C35: at most one mutation observer is connected; on a YouTube page with
\* study mode off none is; and a re-scan is scheduled, by the observer
\* callback or by anything else, only with study mode on.
C35_OneObserver ==
  [][/\ dom'.observers <= 1
     /\ (isYouTube /\ ~securityState'.youtubeStudyMode)
        => dom'.observers = 0
     /\ timers'.rescan > timers.rescan
        => securityState'.youtubeStudyMode]_vars

\* study mode was on and an event has switched it off: the observer is
\* disconnected
C35_Witness ==
  /\ isYouTube
  /\ ~securityState.youtubeStudyMode
  /\ securityState.youtubeObserver = "disconnected"
  /\ dom.observers = 0

\* the panels of the reputation tab that are not hidden
VisiblePanels ==
  {name \in {"initialHidden", "loadingHidden", "errorHidden",
             "resultsHidden"} : ~popup[name]}

\* C36: in every state of the reputation tab at most one of the four
\* panels, initial state, loading, error and results, is visible.
C36_OnePanelVisible ==
  Cardinality(VisiblePanels) <= 1

\* C37: when the callback of a checkReputation message is called with no
\* response, for a check of the current tab and for a check of a typed url
\* alike, the callback raises no fault and leaves the popup in the error
\* state with a message.
C37_NoResponseShown ==
  [][\A id \in PopupRequests :
       (calls[id].status = "sent"
          /\ calls'[id].status \in {"unanswered", "faulted"})
       => /\ calls'[id].status = "unanswered"
          /\ ErrorState(popup')
          /\ popup'.errorMessage # ""]_vars

\* the host an action names: the one of an absolute url, and the one after
\* the two slashes of a scheme-relative url; "" when it names none
HostNamedBy(url) ==
  IF Len(url) >= 2 /\ SubSeq(url, 1, 2) = "//"
  THEN NamedHost("https:" \o url)
  ELSE IF IsRelativeAction(url) THEN ""
  ELSE NamedHost(url)

\* C38: for an action that names a host, as an absolute url or as a
\* scheme-relative one, getDomain returns that host, and a form with a
\* sensitive field whose action names another host than the page's is
\* reported suspicious.
C38_NamedHostReturned ==
  HostNamedBy(form.action) # "" =>
    /\ formResult.op = "getDomain"
       => formResult.value = HostNamedBy(form.action)
    /\ (/\ formResult.op = "analyzeForm"
        /\ SensitiveFieldCount > 0
        /\ HostNamedBy(form.action) # hostname)
       => formResult.value.isSuspicious

====
